---- MODULE Spec2Model ----
(***************************************************************************)
(* Model of the jakson request lifecycle: Action.createHandler /           *)
(* Action.run (src/src/action.ts) on top of the service-instance helpers   *)
(* of Application (src/unnamed/part_000).                                  *)
(*                                                                         *)
(* The specifications share     the variables and the initial state:         *)
(*   Spec             the handler of one request at a time, step by step,  *)
(*                    with every call that may throw;                      *)
(*   FairSpec         Spec with every call of the handler settling;        *)
(*   ApplicationSpec  the configure / start / stop calls of Application,   *)
(*                    made at any time;                                    *)
(*   LifecycleSpec    the same calls, each awaited before the next;        *)
(*   RequestsSpec     the handlers of several requests interleaved, with   *)
(*                    the objects each of them creates;                    *)
(*   ValidationSpec   the handlers of several requests interleaved around  *)
(*                    their validation by the cached validators;           *)
(*   TestSessionSpec  the reads of ServiceFactory.testSession.             *)
(*                                                                         *)
(* Every method a subclass supplies or may override without a framework    *)
(* body of its own (createService, Service.start/stop, log, parseInput,    *)
(* beforeHandle, handle, afterHandle, beforeStopServices,                  *)
(* afterStopServices) is an environment call that either returns or        *)
(* throws.  Methods with a framework body (validate, handleError,          *)
(* handleResult, respond, ensureValidatorsCreated, the validators,         *)
(* isPlainDto, createTestSession) are computed as the source computes      *)
(* them.                                                                   *)
(*                                                                         *)
(* JavaScript values are records with a field t naming their type.         *)
(***************************************************************************)
EXTENDS Integers, Sequences, FiniteSets, TLC

\* Number of entries of the serviceFactories map (iteration order 1..NumServices).
NumServices == 2

\* Longest array a handler returns in the model.
MaxArrayLen == 2

(***************************************************************************)
(* JavaScript values                                                       *)
(***************************************************************************)
Undefined == [t |-> "undefined"]
Null == [t |-> "null"]
Num(n) == [t |-> "number", v |-> n]
Str(s) == [t |-> "string", v |-> s]
Bool(b) == [t |-> "boolean", v |-> b]
\* A plain object literal / an object with custom serialization (toJSON).
PlainObject == [t |-> "object", toJSON |-> FALSE]
ModelObject == [t |-> "object", toJSON |-> TRUE]
Arr(items) == [t |-> "array", items |-> items]

\* Error classes of the taxonomy and two generic errors that differ in message.
TaxonomyErrors == {"NotFoundError", "UnauthorizedError", "ForbiddenError", "ConflictError"}
Err(class, message) == [t |-> "error", class |-> class, message |-> message]
Errors ==
  {Err(c, "m1") : c \in TaxonomyErrors} \cup {Err("Error", "m1"), Err("Error", "m2")}
\* Errors thrown outside run's try block, where nothing inspects the class: one
\* taxonomy error, one generic error.
HookErrors == {Err("ConflictError", "m1"), Err("Error", "m2")}
TypeError == Err("TypeError", "m1")

\* Values of the single property of ctx.request.body / ctx.params / ctx.query.
\* A field of the request is Unread until a validator's getValue reads it.
Unread == [t |-> "unread"]
RequestValues == {Num(1), Str("1"), Str("true"), Str("abc")}

\* What handle returns, and what afterHandle returns.
HandleOutputs == {PlainObject, ModelObject}
FlatOutputs == {Undefined, Null, Num(0), Str("x"), PlainObject, ModelObject}
ArrayItems == {Null, Num(0), PlainObject, ModelObject}
Outputs ==
  FlatOutputs \cup
  {Arr(s) : s \in UNION {[1..n -> ArrayItems] : n \in 0..MaxArrayLen}}

(***************************************************************************)
(* Action subtypes and their static schemas                                *)
(***************************************************************************)
NoSchema == Undefined
\* A schema { properties: { <prop>: { type: <type> } } }.
Schema(prop, type) == [t |-> "schema", prop |-> prop, type |-> type]
Schemas(b, p, q) == [body |-> b, params |-> p, query |-> q]

\* The abstract base class and four concrete subtypes.
ActionClasses ==
  {"Action", "GetHealthAction", "UserAction", "SubUserAction", "BrokenAction"}
ConcreteActions == ActionClasses \ {"Action"}

\* `class X extends Y`: the constructor's prototype, along which statics are looked up.
ActionParent(c) ==
  CASE c = "SubUserAction" -> "UserAction"
    [] OTHER -> "Action"

\* The `static schemas` a class declares itself (Undefined: no own declaration).
\*   Action:         protected static schemas: Schemas = {}
\*   GetHealthAction: declares none
\*   UserAction:     { body: {id: integer}, params: {userId: integer}, query: {withRoles: boolean} }
\*   SubUserAction:  static schemas = {}
\*   BrokenAction:   { body: {id: integer}, params: <a schema ajv rejects> }
OwnSchemas(c) ==
  CASE c = "Action" -> Schemas(NoSchema, NoSchema, NoSchema)
    [] c = "GetHealthAction" -> Undefined
    [] c = "UserAction" -> Schemas(Schema("id", "integer"), Schema("userId", "integer"), Schema("withRoles", "boolean"))
    [] c = "SubUserAction" -> Schemas(NoSchema, NoSchema, NoSchema)
    [] c = "BrokenAction" -> Schemas(Schema("id", "integer"), Schema("id", "bogus"), NoSchema)

\* Static property lookup `this.ctor.schemas` along the constructor chain.
RECURSIVE schemasOf(_)
schemasOf(c) ==
  IF OwnSchemas(c) # Undefined THEN OwnSchemas(c)
  ELSE IF c = "Action" THEN Undefined
  ELSE schemasOf(ActionParent(c))

(***************************************************************************)
(* Validators (ValidatorBase and its subclasses) and the ajv they use      *)
(***************************************************************************)
ValidatorClasses ==
  {"ValidatorBase", "Validator", "CoercingValidator",
   "BodyValidator", "ParamsValidator", "QueryValidator"}

\* `class X extends Y` of the validator classes.
ValidatorParent(k) ==
  CASE k = "BodyValidator" -> "Validator"
    [] k = "ParamsValidator" -> "CoercingValidator"
    [] k = "QueryValidator" -> "CoercingValidator"
    [] OTHER -> "ValidatorBase"

\* Static property lookup `this.ctor.ajv` along the constructor chain, in the
\* statics a (a function from validator class to its own `ajv` property).
RECURSIVE ajvOf(_, _)
ajvOf(a, k) ==
  IF a[k] # Undefined THEN a[k]
  ELSE IF k = "ValidatorBase" THEN Undefined
  ELSE ajvOf(a, ValidatorParent(k))

\* createAjv of Validator ({allErrors, format}) and of CoercingValidator
\* ({allErrors, coerceTypes: true, format}), as inherited by class k.
createAjv(k) ==
  [t |-> "ajv",
   coerceTypes |-> (k = "CoercingValidator" \/ ValidatorParent(k) = "CoercingValidator")]

\* AjvOwner, with the ajv stored on the base class all validators share.
AjvOwner_Shared(k) == "ValidatorBase"

\* The own property `this.ctor.ajv = ...` is written on the validator's own class.
AjvOwner(k) == k

\* ajv.compile(schema) throws on a schema that is not valid JSON Schema.
CompileThrows(schema) == schema.type \notin {"integer", "boolean"}

\* new <k>(schema): ValidatorBase.constructor.  Gives the statics afterwards, the
\* validator object (its compiled function remembers the ajv options), and
\* whether compile threw.
NewValidator(a, k, schema) ==
  LET a1 == IF ajvOf(a, k) = Undefined
            THEN [a EXCEPT ![AjvOwner(k)] = createAjv(k)]
            ELSE a
  IN  IF CompileThrows(schema)
      THEN [ajv |-> a1, threw |-> TRUE, validator |-> Undefined]
      ELSE [ajv |-> a1, threw |-> FALSE,
            validator |-> [t |-> "validator", class |-> k, schema |-> schema,
                           coerceTypes |-> ajvOf(a1, k).coerceTypes]]

\* typeof data, as ajv's type keyword sees it.
IsInteger(x) == x.t = "number"
IsBoolean(x) == x.t = "boolean"
\* Strings s with s == +s (numeric-looking), and +s.
NumericStrings == {"0", "1"}
ToNumber(s) == IF s = "0" THEN 0 ELSE 1

\* ajv's coerceTypes for a value that does not have the wanted type: the
\* coerced value, or Undefined if the value cannot be coerced.
Coerce(type, x) ==
  CASE type = "integer" /\ x.t = "string" /\ x.v \in NumericStrings -> Num(ToNumber(x.v))
    [] type = "integer" /\ x.t = "boolean" -> Num(IF x.v THEN 1 ELSE 0)
    [] type = "integer" /\ x.t = "null" -> Num(0)
    [] type = "boolean" /\ x.t = "string" /\ x.v \in {"true", "false"} -> Bool(x.v = "true")
    [] type = "boolean" /\ x.t = "number" /\ x.v \in {0, 1} -> Bool(x.v = 1)
    [] type = "boolean" /\ x.t = "null" -> Bool(FALSE)
    [] OTHER -> Undefined

HasType(type, x) == IF type = "integer" THEN IsInteger(x) ELSE IsBoolean(x)

\* One entry of validator.errors.
TypeErrorEntry(schema) ==
  [keyword |-> "type", dataPath |-> schema.prop, params |-> [type |-> schema.type]]

\* The compiled validate function applied to the value x of the schema's
\* property: whether it returned true, the value left in the data (ajv coerces
\* in place), and validator.errors.
Ajv(v, x) ==
  IF HasType(v.schema.type, x)
  THEN [valid |-> TRUE, data |-> x, errors |-> << >>]
  ELSE IF v.coerceTypes /\ Coerce(v.schema.type, x) # Undefined
  THEN [valid |-> TRUE, data |-> Coerce(v.schema.type, x), errors |-> << >>]
  ELSE [valid |-> FALSE, data |-> x, errors |-> <<TypeErrorEntry(v.schema)>>]

\* The Result of ValidatorBase.validate for a failed validation.
ValidationResult(errors) ==
  [status |-> 400,
   body |-> [t |-> "object", toJSON |-> FALSE, error |-> "Validation", errors |-> errors]]

(***************************************************************************)
(* State                                                                   *)
(***************************************************************************)
VARIABLES
  validators,  \* Action.validators: each Action class's own static property
  ajv,         \* ValidatorBase.ajv: each validator class's own static property
  pc,          \* where the request handler of createHandler / run stands
  ctor,        \* the Action subtype the handler was created for (this.ctor)
  ctx,         \* the koa context: request fields read so far, response status and body
  services,    \* keys of the request's services map
  i,           \* position of the running forEachService / forEachServiceFactory loop
  output,      \* `output` of run
  result,      \* `result` of run
  error,       \* `err` caught by run's catch
  rejection,   \* the exception the handler's promise rejects with
  trace,       \* calls made for the current request, in order
  \* The Application object and its configure / start / stop calls.
  serviceFactories, \* Application.serviceFactories
  koa,              \* Application.koa
  server,           \* Application.server: Undefined, or the http server startServer returned
  sockets,          \* every http server created so far: is it listening
  frames,           \* the outstanding call of configure, of start and of stop
  events,           \* what the Application's methods did, in order
  unhandled,        \* rejections of promises nobody awaits
  process,          \* "running", or "exited" once node ended the process
  \* Requests handled concurrently.
  requests,         \* per request: where its handler stands and the objects it holds
  heap,             \* the objects allocated for requests: services maps, contexts, services
  compilations,     \* per Action class, how often ensureValidatorsCreated built validators
  validatorErrors,  \* the errors property of the compiled function of each cached validator
  \* The test sessions of the service factories.
  testSessions,     \* ServiceFactory._testSession of each factory
  accesses          \* every read of a factory's testSession, in order

statics == <<validators, ajv>>

\* The variables of the handler of one request.
handler == <<pc, ctor, ctx, services, i, output, result, error, rejection, trace>>

application ==
  <<serviceFactories, koa, server, sockets, frames, events, unhandled, process>>

concurrent == <<requests, heap, compilations, validatorErrors>>

\* The variables of the test harness reading ServiceFactory.testSession.
testing == <<testSessions, accesses>>

vars == <<statics, handler, application, concurrent, testing>>

\* One call of the current request: the operation, its argument (a service
\* name, or 0), how it ended ("returned", "threw", or "invalid" for a validator
\* that returned an error Result) and the value it read (a validator) or
\* returned (handle, afterHandle).
Call(op, arg, outcome, value) == [op |-> op, arg |-> arg, outcome |-> outcome, value |-> value]

\* The koa context of a new request.  status 0: nothing has been written to
\* the response yet.
FreshContext ==
  [requestBody |-> Unread, params |-> Unread, query |-> Unread,
   status |-> 0, body |-> Undefined]

\* validatorsOf, never finding validators: every instance builds its own.
validatorsOf_Never(vs, c) == Undefined

\* The validator class ensureValidatorsCreated instantiates for a stage.
ValidatorOf(s) ==
  CASE s = "body" -> "BodyValidator"
    [] s = "params" -> "ParamsValidator"
    [] s = "query" -> "QueryValidator"

\* Static property lookup `this.ctor.validators` along the constructor chain,
\* in the statics vs.
RECURSIVE validatorsOf(_, _)
validatorsOf(vs, c) ==
  IF vs[c] # Undefined THEN vs[c]
  ELSE IF c = "Action" THEN Undefined
  ELSE validatorsOf(vs, ActionParent(c))

\* `this.ctor.validators = validators` writes the own property of the class.
ValidatorsOwner(c) == c

NoValidators == [body |-> Undefined, params |-> Undefined, query |-> Undefined]

\* Action.ensureValidatorsCreated for an instance of class c, from the statics
\* (vs, a): the statics afterwards, whether a compile threw, and the stages for
\* which a validator was constructed.  The empty validators object is stored in
\* the class before the validators are built and is then filled in place.
ensureValidatorsCreated(vs, a, c) ==
  IF validatorsOf(vs, c) # Undefined
  THEN [validators |-> vs, ajv |-> a, threw |-> FALSE, compiled |-> {}]
  ELSE
    LET o == ValidatorsOwner(c)
        schemas == schemasOf(c)
        vs0 == [vs EXCEPT ![o] = NoValidators]
    IN
    IF schemas = Undefined
    THEN [validators |-> vs0, ajv |-> a, threw |-> FALSE, compiled |-> {}]
    ELSE
      LET b == IF schemas.body # NoSchema
               THEN NewValidator(a, "BodyValidator", schemas.body)
               ELSE [ajv |-> a, threw |-> FALSE, validator |-> Undefined]
          vs1 == [vs0 EXCEPT ![o].body = b.validator]
          cb == IF schemas.body # NoSchema THEN {"body"} ELSE {}
      IN
      IF b.threw THEN [validators |-> vs0, ajv |-> b.ajv, threw |-> TRUE, compiled |-> cb]
      ELSE
        LET p == IF schemas.params # NoSchema
                 THEN NewValidator(b.ajv, "ParamsValidator", schemas.params)
                 ELSE [ajv |-> b.ajv, threw |-> FALSE, validator |-> Undefined]
            vs2 == [vs1 EXCEPT ![o].params = p.validator]
            cp == IF schemas.params # NoSchema THEN cb \cup {"params"} ELSE cb
        IN
        IF p.threw THEN [validators |-> vs1, ajv |-> p.ajv, threw |-> TRUE, compiled |-> cp]
        ELSE
          LET q == IF schemas.query # NoSchema
                   THEN NewValidator(p.ajv, "QueryValidator", schemas.query)
                   ELSE [ajv |-> p.ajv, threw |-> FALSE, validator |-> Undefined]
              vs3 == [vs2 EXCEPT ![o].query = q.validator]
              cq == IF schemas.query # NoSchema THEN cp \cup {"query"} ELSE cp
          IN
          IF q.threw THEN [validators |-> vs2, ajv |-> q.ajv, threw |-> TRUE, compiled |-> cq]
          ELSE [validators |-> vs3, ajv |-> q.ajv, threw |-> FALSE, compiled |-> cq]

(***************************************************************************)
(* The Application object (src/unnamed/part_000)                           *)
(***************************************************************************)
\* Calls of configure / start / stop the embedding program makes in one run.
MaxAppCalls == 4

\* An instance of ServiceFactory, and the values createServiceFactories may
\* put into the map: a factory, or an object that is none.
Factory == [t |-> "object", toJSON |-> FALSE, class |-> "ServiceFactory"]
FactoryValues == {Factory, PlainObject}
\* The map createServiceFactories returns, keys in the order of Object.entries.
FactoriesMap(entries) == [t |-> "object", toJSON |-> FALSE, entries |-> entries]
FactoryMaps == {FactoriesMap(m) : m \in [1..NumServices -> FactoryValues]}

Koa == [t |-> "object", toJSON |-> FALSE, class |-> "Koa"]
\* The n-th http server created by startServer.
Server(n) == [t |-> "object", toJSON |-> FALSE, class |-> "Server", id |-> n]

\* What user code of the Application (createServiceFactories, registerRoutes,
\* a factory's start / stop) throws when it throws.
FactoryErrors == {Err("Error", "m1")}
NotConfigured == Err("Error", "run configure before start")
\* The message of typeCheckServiceFactories interpolates an identifier called
\* name, while the parameter of the callback is called _: nothing of that name
\* is in scope.
ReferenceError == Err("ReferenceError", "name is not defined")

Methods == {"configure", "start", "stop"}
\* The frame of an outstanding call: where it stands, its number, the position
\* of its forEachServiceFactory loop and the entries that loop iterates.
Frame(pc_, id, i_, entries) == [pc |-> pc_, id |-> id, i |-> i_, entries |-> entries]
Idle == Frame("idle", 0, 0, Undefined)

\* One thing a call did: "invoked" / "returned" / "threw" for the method itself
\* (arg 0), and the outcome of each factory hook or socket operation it ran,
\* with the error thrown or passed to the callback.
Event(id, op, arg, outcome, value) ==
  [call |-> id, op |-> op, arg |-> arg, outcome |-> outcome, value |-> value]

ApplicationInit ==
  /\ serviceFactories = Undefined
  /\ koa = Undefined
  /\ server = Undefined
  /\ sockets = << >>
  /\ frames = [m \in Methods |-> Idle]
  /\ events = << >>
  /\ unhandled = {}
  /\ process = "running"

(***************************************************************************)
(* Requests in flight at the same time                                     *)
(***************************************************************************)
\* Requests whose handlers run interleaved.
NumRequests == 2
Requests == 1..NumRequests

\* nanoid(8): some string.
Uids == {"u1", "u2"}
Stages == {"body", "params", "query"}

\* Objects created while requests are handled live at addresses.  The k-th
\* object a request's handler creates gets an address no other object has.
NoObject == <<0, 0>>
\* NewObject, handing out the addresses of the first request again.
NewObject_Reused(r, k) == <<1, k>>
NewObject(r, k) == <<r, k>>
Addresses == {NewObject(r, k) : r \in Requests, k \in 1..(NumServices + 2)}
Free == [kind |-> "free"]

\* `const services: any = {}` of createServiceInstances: the entries in the
\* order the keys were added.
ServicesMap(r) == [kind |-> "services", createdBy |-> r, entries |-> << >>]
\* The object literal createServiceContext returns.
ServiceContext(r, servicesMap, uid, type) ==
  [kind |-> "context", createdBy |-> r, services |-> servicesMap, uid |-> uid, type |-> type]
\* A Service whose constructor does not keep ctx.services.
NewService_Detached(h, r, f, c) ==
  [kind |-> "service", createdBy |-> r, factory |-> f, ctx |-> c,
   services |-> NoObject, instanceId |-> h[c].uid,
   siblings |-> h[h[c].services].entries,
   started |-> << >>, stopped |-> << >>]

\* new Service(ctx), the ctx being the object at address c of heap h: the
\* constructor copies ctx.services and ctx.uid.  factory and ctx record which
\* createService call made the instance, siblings the entries the map
\* ctx.services had when the factory was called, started and stopped the
\* requests that called start() and stop() on it.
NewService(h, r, f, c) ==
  [kind |-> "service", createdBy |-> r, factory |-> f, ctx |-> c,
   services |-> h[c].services, instanceId |-> h[c].uid,
   siblings |-> h[h[c].services].entries,
   started |-> << >>, stopped |-> << >>]

\* Of a request that was validated: values are its body, params and query,
\* failed the stage whose validator rejected it, errors what validate read from
\* validator.errors for its Result, response what was written.
\* The handler of a request: where it stands, the Action subtype of its route,
\* its `services` (the map createServiceInstances returned, held by the Action
\* as this.services), the serviceContext of its createServiceInstances call,
\* its loop position and the number of objects it has created.
NoRequest ==
  [pc |-> "idle", ctor |-> "Action", services |-> NoObject, context |-> NoObject,
   i |-> 0, allocated |-> 0, values |-> Undefined, failed |-> "none",
   errors |-> Null, response |-> Undefined]

RequestsInit ==
  /\ requests = [r \in Requests |-> NoRequest]
  /\ heap = [a \in Addresses |-> Free]
  /\ compilations = [c \in ActionClasses |-> [s \in Stages |-> 0]]
  /\ validatorErrors = [c \in ActionClasses |-> [s \in Stages |-> Null]]

(***************************************************************************)
(* ServiceFactory.testSession                                              *)
(***************************************************************************)
\* How many reads of testSession the test harness makes in the model.
MaxAccesses == 6

\* `private _testSession?: ServiceTestSession` of each of the factories.
TestingInit ==
  /\ testSessions = [f \in 1..NumServices |-> Undefined]
  /\ accesses = << >>

Init ==
  /\ validators = [c \in ActionClasses |-> Undefined]
  /\ ajv = [k \in ValidatorClasses |-> Undefined]
  /\ pc = "idle"
  /\ ctor = "Action"
  /\ ctx = FreshContext
  /\ services = {}
  /\ i = 0
  /\ output = Undefined
  /\ result = Undefined
  /\ error = Undefined
  /\ rejection = Undefined
  /\ trace = << >>
  /\ ApplicationInit
  /\ RequestsInit
  /\ TestingInit

(***************************************************************************)
(* Action.createHandler: the koa handler of one request                    *)
(***************************************************************************)
\* A request arrives at a route of Action subtype c: the handler starts
\* app.createServiceInstances('action', ctx) with an empty services map.
Begin ==
  /\ pc \in {"idle", "done", "rejected"}
  /\ \E c \in ConcreteActions : ctor' = c
  /\ ctx' = FreshContext
  /\ services' = {}
  /\ i' = 1
  /\ output' = Undefined
  /\ result' = Undefined
  /\ error' = Undefined
  /\ rejection' = Undefined
  /\ trace' = << >>
  /\ pc' = IF NumServices = 0 THEN "construct" ELSE "createService"
  /\ UNCHANGED statics
  /\ UNCHANGED <<application, concurrent, testing>>

\* createServiceInstancesForContext: `services[name] = await factory.createService(ctx)`
\* for the i-th factory.  A rejection is not caught by the handler.
CreateService ==
  /\ pc = "createService"
  /\ \/ /\ services' = services \cup {i}
        /\ trace' = Append(trace, Call("createService", i, "returned", Undefined))
        /\ IF i = NumServices
           THEN pc' = "construct" /\ i' = 0
           ELSE pc' = "createService" /\ i' = i + 1
        /\ UNCHANGED rejection
     \/ /\ \E e \in HookErrors :
             /\ rejection' = e
             /\ trace' = Append(trace, Call("createService", i, "threw", e))
        /\ pc' = "rejected"
        /\ UNCHANGED <<services, i>>
  /\ UNCHANGED <<statics, ctor, ctx, output, result, error>>
  /\ UNCHANGED <<application, concurrent, testing>>

\* `new this(app, services)`: the constructor runs ensureValidatorsCreated.  A
\* throwing compile is not caught by the handler.
Construct ==
  /\ pc = "construct"
  /\ LET r == ensureValidatorsCreated(validators, ajv, ctor) IN
       /\ validators' = r.validators
       /\ ajv' = r.ajv
       /\ trace' = Append(trace, Call("construct", 0, IF r.threw THEN "threw" ELSE "returned", Undefined))
       /\ IF r.threw
          THEN /\ pc' = "rejected"
               /\ rejection' = Err("Error", "schema is invalid")
               /\ i' = i
          ELSE /\ pc' = IF services = {} THEN "logStarted" ELSE "startService"
               /\ rejection' = rejection
               /\ i' = 1
  /\ UNCHANGED <<ctor, ctx, services, output, result, error>>
  /\ UNCHANGED <<application, concurrent, testing>>

(***************************************************************************)
(* Action.run                                                              *)
(***************************************************************************)
\* Object.entries(services) of forEachService: the services in key order.
LastService == Cardinality(services)

\* An exception inside run's try block goes to its catch.
ThrowInTry(e) ==
  /\ error' = e
  /\ pc' = "catch"

\* startServiceInstances: `await service.start()` on the i-th service, inside
\* run's try block.
StartService ==
  /\ pc = "startService"
  /\ \/ /\ trace' = Append(trace, Call("start", i, "returned", Undefined))
        /\ IF i = LastService
           THEN pc' = "logStarted" /\ i' = 0
           ELSE pc' = "startService" /\ i' = i + 1
        /\ UNCHANGED error
     \/ /\ \E e \in Errors : ThrowInTry(e)
        /\ trace' = Append(trace, Call("start", i, "threw", Undefined))
        /\ UNCHANGED i
  /\ UNCHANGED <<statics, ctor, ctx, services, output, result, rejection>>
  /\ UNCHANGED <<application, concurrent, testing>>

\* this.log('request started', { method, path })
LogRequestStarted ==
  /\ pc = "logStarted"
  /\ \/ /\ trace' = Append(trace, Call("log request started", 0, "returned", Undefined))
        /\ pc' = "validate"
        /\ UNCHANGED error
     \/ /\ \E e \in Errors : ThrowInTry(e)
        /\ trace' = Append(trace, Call("log request started", 0, "threw", Undefined))
  /\ UNCHANGED <<statics, ctor, ctx, services, i, output, result, rejection>>
  /\ UNCHANGED <<application, concurrent, testing>>

\* ValidatorBase.validate of validator v on the value x that getValue gives:
\* the Result (Undefined for null), the value left in the request and the call made.
RunValidator(v, x) ==
  LET r == Ajv(v, x) IN
  [result |-> IF r.valid THEN Undefined ELSE ValidationResult(r.errors),
   data |-> r.data,
   call |-> Call(v.class, 0, IF r.valid THEN "returned" ELSE "invalid", x)]

\* validate, without the `!result &&` guards: every validator runs and a later
\* stage overwrites the result of an earlier one.
validate_NoShortCircuit(vd, b, p, q) ==
  LET rb == IF vd.body # Undefined
            THEN RunValidator(vd.body, b)
            ELSE [result |-> Undefined, data |-> Unread, call |-> Undefined]
      rp == IF vd.params # Undefined
            THEN RunValidator(vd.params, p)
            ELSE [result |-> rb.result, data |-> Unread, call |-> Undefined]
      rq == IF vd.query # Undefined
            THEN RunValidator(vd.query, q)
            ELSE [result |-> rp.result, data |-> Unread, call |-> Undefined]
  IN
  [result |-> rq.result,
   requestBody |-> rb.data, params |-> rp.data, query |-> rq.data,
   calls |-> SelectSeq(<<rb.call, rp.call, rq.call>>, LAMBDA c : c # Undefined)]

\* Action.validate with the validators vd on a request whose body, params and
\* query hold b, p and q: the Result (Undefined for null), the request fields
\* as read and left by the validators, and the validators called, in order.
validate(vd, b, p, q) ==
  LET rb == IF vd.body # Undefined
            THEN RunValidator(vd.body, b)
            ELSE [result |-> Undefined, data |-> Unread, call |-> Undefined]
      rp == IF rb.result = Undefined /\ vd.params # Undefined
            THEN RunValidator(vd.params, p)
            ELSE [result |-> rb.result, data |-> Unread, call |-> Undefined]
      rq == IF rp.result = Undefined /\ vd.query # Undefined
            THEN RunValidator(vd.query, q)
            ELSE [result |-> rp.result, data |-> Unread, call |-> Undefined]
  IN
  [result |-> rq.result,
   requestBody |-> rb.data, params |-> rp.data, query |-> rq.data,
   calls |-> SelectSeq(<<rb.call, rp.call, rq.call>>, LAMBDA c : c # Undefined)]

\* `const validationResult = await this.validate(ctx)` and the early return.
Validate ==
  /\ pc = "validate"
  /\ \E b \in RequestValues, p \in RequestValues, q \in RequestValues :
       LET r == validate(validatorsOf(validators, ctor), b, p, q) IN
         /\ ctx' = [ctx EXCEPT !.requestBody = r.requestBody,
                               !.params = r.params, !.query = r.query]
         /\ trace' = trace \o r.calls
         /\ IF r.result # Undefined
            THEN result' = r.result /\ pc' = "finally"
            ELSE result' = result /\ pc' = "parseInput1"
  /\ UNCHANGED <<statics, ctor, services, i, output, error, rejection>>
  /\ UNCHANGED <<application, concurrent, testing>>

\* `let input = this.parseInput(ctx)` and the second `this.parseInput(ctx)`
\* that is the argument of beforeHandle.
ParseInput ==
  /\ pc \in {"parseInput1", "parseInput2"}
  /\ \/ /\ trace' = Append(trace, Call("parseInput", 0, "returned", Undefined))
        /\ pc' = IF pc = "parseInput1" THEN "parseInput2" ELSE "beforeHandle"
        /\ UNCHANGED error
     \/ /\ \E e \in Errors : ThrowInTry(e)
        /\ trace' = Append(trace, Call("parseInput", 0, "threw", Undefined))
  /\ UNCHANGED <<statics, ctor, ctx, services, i, output, result, rejection>>
  /\ UNCHANGED <<application, concurrent, testing>>

\* `input = await this.beforeHandle(...)`
BeforeHandle ==
  /\ pc = "beforeHandle"
  /\ \/ /\ trace' = Append(trace, Call("beforeHandle", 0, "returned", Undefined))
        /\ pc' = "handle"
        /\ UNCHANGED error
     \/ /\ \E e \in Errors : ThrowInTry(e)
        /\ trace' = Append(trace, Call("beforeHandle", 0, "threw", Undefined))
  /\ UNCHANGED <<statics, ctor, ctx, services, i, output, result, rejection>>
  /\ UNCHANGED <<application, concurrent, testing>>

\* `let output = await this.handle(input)`
Handle ==
  /\ pc = "handle"
  /\ \/ /\ \E o \in HandleOutputs :
             /\ output' = o
             /\ trace' = Append(trace, Call("handle", 0, "returned", o))
        /\ pc' = "afterHandle"
        /\ UNCHANGED error
     \/ /\ \E e \in Errors : ThrowInTry(e)
        /\ trace' = Append(trace, Call("handle", 0, "threw", Undefined))
        /\ UNCHANGED output
  /\ UNCHANGED <<statics, ctor, ctx, services, i, result, rejection>>
  /\ UNCHANGED <<application, concurrent, testing>>

\* `output = await this.afterHandle(input, output)`
AfterHandle ==
  /\ pc = "afterHandle"
  /\ \/ /\ \E o \in Outputs :
             /\ output' = o
             /\ trace' = Append(trace, Call("afterHandle", 0, "returned", o))
        /\ pc' = "checkOutput"
        /\ UNCHANGED error
     \/ /\ \E e \in Errors : ThrowInTry(e)
        /\ trace' = Append(trace, Call("afterHandle", 0, "threw", Undefined))
        /\ UNCHANGED output
  /\ UNCHANGED <<statics, ctor, ctx, services, i, result, rejection>>
  /\ UNCHANGED <<application, concurrent, testing>>

\* JavaScript truthiness of the values handlers return.
Truthy(x) ==
  CASE x.t \in {"undefined", "null"} -> FALSE
    [] x.t = "number" -> x.v # 0
    [] x.t = "string" -> x.v # ""
    [] x.t = "boolean" -> x.v
    [] OTHER -> TRUE

\* isPlainDto: "true", "false", or "throws" (reading toJSON of null).
RECURSIVE isPlainDto(_)
isPlainDto(obj) ==
  IF obj.t = "array"
  THEN IF \E n \in 1..Len(obj.items) :
            /\ isPlainDto(obj.items[n]) # "true"
            /\ \A m \in 1..(n - 1) : isPlainDto(obj.items[m]) = "true"
       THEN LET n == CHOOSE n \in 1..Len(obj.items) :
                       /\ isPlainDto(obj.items[n]) # "true"
                       /\ \A m \in 1..(n - 1) : isPlainDto(obj.items[m]) = "true"
            IN isPlainDto(obj.items[n])
       ELSE "true"
  ELSE IF obj.t = "null" THEN "throws"
  ELSE IF obj.t = "object" THEN (IF obj.toJSON THEN "false" ELSE "true")
  ELSE "true"

\* The DTO check `if (output && !isPlainDto(output)) throw new Error(...)` and
\* `result = { status: 200, body: output }`.
CheckOutput ==
  /\ pc = "checkOutput"
  /\ LET plain == IF Truthy(output) THEN isPlainDto(output) ELSE "true" IN
       /\ trace' = Append(trace, Call("checkOutput", 0, IF plain = "true" THEN "returned" ELSE "threw", Undefined))
       /\ IF plain = "throws"
          THEN ThrowInTry(TypeError) /\ result' = result
          ELSE IF plain = "false"
          THEN ThrowInTry(Err("Error", "always return plain objects (DTOs)")) /\ result' = result
          ELSE /\ result' = [status |-> 200, body |-> output]
               /\ pc' = "finally"
               /\ error' = error
  /\ UNCHANGED <<statics, ctor, ctx, services, i, output, rejection>>
  /\ UNCHANGED <<application, concurrent, testing>>

\* The body { error: <tag> } of an error Result.
ErrorBody(tag) == [t |-> "object", toJSON |-> FALSE, error |-> tag]

\* Action.handleError: the Result for a caught error, and whether the branch
\* taken calls this.log('error', { error }) first.
handleError(e) ==
  CASE e.class = "NotFoundError" ->
         [logs |-> FALSE, result |-> [status |-> 404, body |-> ErrorBody("NotFound")]]
    [] e.class = "UnauthorizedError" ->
         [logs |-> FALSE, result |-> [status |-> 401, body |-> ErrorBody("Unauthorized")]]
    [] e.class = "ForbiddenError" ->
         [logs |-> FALSE, result |-> [status |-> 403, body |-> ErrorBody("Forbidden")]]
    [] e.class = "ConflictError" ->
         [logs |-> FALSE, result |-> [status |-> 409, body |-> ErrorBody("Conflict")]]
    [] OTHER ->
         [logs |-> TRUE, result |-> [status |-> 500, body |-> ErrorBody("Internal")]]

\* An exception that leaves run: the handler's promise rejects with it.
ThrowOutOfRun(e) ==
  /\ rejection' = e
  /\ pc' = "rejected"

\* Catch, with the caught error thrown again after it was mapped.
CatchRethrows ==
  /\ pc = "catch"
  /\ result' = handleError(error).result
  /\ rejection' = error
  /\ pc' = "finally"
  /\ UNCHANGED <<statics, ctor, ctx, services, i, output, error, trace>>
  /\ UNCHANGED <<application, concurrent, testing>>

\* `catch (err) { result = this.handleError(err) }`.  If the log call of
\* handleError throws, the exception leaves the catch block with `result`
\* unassigned; the finally block still runs.
Catch ==
  /\ pc = "catch"
  /\ LET h == handleError(error) IN
       \/ /\ ~h.logs
          /\ result' = h.result
          /\ UNCHANGED <<rejection, trace>>
       \/ /\ h.logs
          /\ trace' = Append(trace, Call("log error", 0, "returned", Undefined))
          /\ result' = h.result
          /\ UNCHANGED rejection
       \/ /\ h.logs
          /\ trace' = Append(trace, Call("log error", 0, "threw", Undefined))
          /\ \E e \in HookErrors : rejection' = e
          /\ UNCHANGED result
  /\ pc' = "finally"
  /\ UNCHANGED <<statics, ctor, ctx, services, i, output, error>>
  /\ UNCHANGED <<application, concurrent, testing>>

\* respond, without the assignment of the body.
respond_StatusOnly(c, r) == [c EXCEPT !.status = r.status]

\* Action.respond: ctx.status = result.status; ctx.body = result.body
respond(c, r) == [c EXCEPT !.status = r.status, !.body = r.body]

\* handleResult handing every Result to this.respond.
UsesRespond_Always(r) == TRUE

\* Whether handleResult hands the Result to this.respond.
UsesRespond(r) == r.status >= 200 /\ r.status < 300

\* The branch of handleResult that writes Result r: the call of this.respond,
\* or the two assignments of the else branch.
PathOf(r) == IF UsesRespond(r) THEN Str("respond") ELSE Str("assign")

\* `this.handleResult(ctx, result!)`, first statement of the finally block.
\* Reading `status` of an unassigned result throws a TypeError.  The value of
\* a call that returned is the branch that wrote the response.
HandleResult ==
  /\ pc = "finally"
  /\ IF result = Undefined
     THEN /\ ThrowOutOfRun(TypeError)
          /\ trace' = Append(trace, Call("handleResult", 0, "threw", Undefined))
          /\ UNCHANGED ctx
     ELSE /\ ctx' = IF UsesRespond(result)
                    THEN respond(ctx, result)
                    ELSE [ctx EXCEPT !.status = result.status, !.body = result.body]
          /\ trace' = Append(trace, Call("handleResult", 0, "returned", PathOf(result)))
          /\ pc' = "logEnded"
          /\ UNCHANGED rejection
  /\ UNCHANGED <<statics, ctor, services, i, output, result, error>>
  /\ UNCHANGED <<application, concurrent, testing>>

\* this.log('request ended', { status, requestTime })
LogRequestEnded ==
  /\ pc = "logEnded"
  /\ \/ /\ trace' = Append(trace, Call("log request ended", 0, "returned", Undefined))
        /\ pc' = "beforeStopServices"
        /\ UNCHANGED rejection
     \/ /\ \E e \in HookErrors : ThrowOutOfRun(e)
        /\ trace' = Append(trace, Call("log request ended", 0, "threw", Undefined))
  /\ UNCHANGED <<statics, ctor, ctx, services, i, output, result, error>>
  /\ UNCHANGED <<application, concurrent, testing>>

\* `await this.beforeStopServices()`
BeforeStopServices ==
  /\ pc = "beforeStopServices"
  /\ \/ /\ trace' = Append(trace, Call("beforeStopServices", 0, "returned", Undefined))
        /\ IF services = {}
           THEN pc' = "afterStopServices" /\ i' = 0
           ELSE pc' = "stopService" /\ i' = 1
        /\ UNCHANGED rejection
     \/ /\ \E e \in HookErrors : ThrowOutOfRun(e)
        /\ trace' = Append(trace, Call("beforeStopServices", 0, "threw", Undefined))
        /\ UNCHANGED i
  /\ UNCHANGED <<statics, ctor, ctx, services, output, result, error>>
  /\ UNCHANGED <<application, concurrent, testing>>

\* stopServiceInstances with a forEachService that catches what a stop()
\* throws and goes on to the next service.
StopService_Swallows ==
  /\ pc = "stopService"
  /\ \E outcome \in {"returned", "threw"} :
       trace' = Append(trace, Call("stop", i, outcome,
                                   IF outcome = "threw" THEN TypeError ELSE Undefined))
  /\ IF i = LastService
     THEN pc' = "afterStopServices" /\ i' = 0
     ELSE pc' = "stopService" /\ i' = i + 1
  /\ UNCHANGED <<statics, ctor, ctx, services, output, result, error, rejection>>
  /\ UNCHANGED <<application, concurrent, testing>>

\* stopServiceInstances: `await service.stop()` on the i-th service, inside
\* run's finally block. The value of a call that threw is the error thrown.
StopService ==
  /\ pc = "stopService"
  /\ \/ /\ trace' = Append(trace, Call("stop", i, "returned", Undefined))
        /\ IF i = LastService
           THEN pc' = "afterStopServices" /\ i' = 0
           ELSE pc' = "stopService" /\ i' = i + 1
        /\ UNCHANGED rejection
     \/ /\ \E e \in HookErrors :
             /\ ThrowOutOfRun(e)
             /\ trace' = Append(trace, Call("stop", i, "threw", e))
        /\ UNCHANGED i
  /\ UNCHANGED <<statics, ctor, ctx, services, output, result, error>>
  /\ UNCHANGED <<application, concurrent, testing>>

\* `await this.afterStopServices()` and the end of run: the handler's promise
\* resolves unless the catch block left an exception pending.
AfterStopServices ==
  /\ pc = "afterStopServices"
  /\ \/ /\ trace' = Append(trace, Call("afterStopServices", 0, "returned", Undefined))
        /\ pc' = IF rejection # Undefined THEN "rejected" ELSE "done"
        /\ UNCHANGED rejection
     \/ /\ \E e \in HookErrors : ThrowOutOfRun(e)
        /\ trace' = Append(trace, Call("afterStopServices", 0, "threw", Undefined))
  /\ UNCHANGED <<statics, ctor, ctx, services, i, output, result, error>>
  /\ UNCHANGED <<application, concurrent, testing>>

Next ==
  \/ Begin
  \/ CreateService
  \/ Construct
  \/ StartService
  \/ LogRequestStarted
  \/ Validate
  \/ ParseInput
  \/ BeforeHandle
  \/ Handle
  \/ AfterHandle
  \/ CheckOutput
  \/ Catch
  \/ HandleResult
  \/ LogRequestEnded
  \/ BeforeStopServices
  \/ StopService
  \/ AfterStopServices

Spec == Init /\ [][Next]_vars

\* The steps of the handler of a request once it has arrived.  Each is a call
\* createHandler or run awaits, or synchronous code of their own.
HandlerSteps ==
  \/ CreateService
  \/ Construct
  \/ StartService
  \/ LogRequestStarted
  \/ Validate
  \/ ParseInput
  \/ BeforeHandle
  \/ Handle
  \/ AfterHandle
  \/ CheckOutput
  \/ Catch
  \/ HandleResult
  \/ LogRequestEnded
  \/ BeforeStopServices
  \/ StopService
  \/ AfterStopServices

\* Spec with every call of the handler settling: a factory call, service hook,
\* pipeline step or log call that was made eventually returns or throws, and
\* the handler then goes on.  Whether another request arrives is left open.
FairSpec == Spec /\ WF_vars(HandlerSteps)

(***************************************************************************)
(* Application.configure / start / stop                                    *)
(*                                                                         *)
(* The three methods are async: a call runs up to its next await, and      *)
(* calls of different methods interleave there.  At most one call of each  *)
(* method is outstanding.                                                  *)
(***************************************************************************)
Invocations == {n \in DOMAIN events : events[n].outcome = "invoked"}
NextCallId == Cardinality(Invocations) + 1

\* The embedding program may call method m now.
CanCall(m) ==
  /\ process = "running"
  /\ frames[m].pc = "idle"
  /\ Cardinality(Invocations) < MaxAppCalls

\* The promise of the outstanding call of m settles: it rejects with e, or resolves.
Rejects(m, e) == Event(frames[m].id, m, 0, "threw", e)
Resolves(m) == Event(frames[m].id, m, 0, "returned", Undefined)

\* `async configure()` is called: createServiceFactories is started.
Configure ==
  /\ CanCall("configure")
  /\ frames' = [frames EXCEPT !["configure"] =
                  Frame("createServiceFactories", NextCallId, 0, Undefined)]
  /\ events' = Append(events, Event(NextCallId, "configure", 0, "invoked", Undefined))
  /\ UNCHANGED <<serviceFactories, koa, server, sockets, unhandled, process>>
  /\ UNCHANGED <<statics, handler, concurrent, testing>>

InstanceOfServiceFactory(v) == v = Factory

\* typeCheckServiceFactories: forEachServiceFactory is called and its promise
\* is dropped.  Gives the error that promise rejects with (the callback throws
\* at the first value that is no ServiceFactory), or Undefined.
typeCheckServiceFactories(map) ==
  IF \E n \in DOMAIN map.entries : ~InstanceOfServiceFactory(map.entries[n])
  THEN ReferenceError
  ELSE Undefined

\* `this.serviceFactories = await this.createServiceFactories()` and
\* `await this.typeCheckServiceFactories()`.
CreateServiceFactories ==
  /\ process = "running"
  /\ frames["configure"].pc = "createServiceFactories"
  /\ \/ \E map \in FactoryMaps :
          /\ serviceFactories' = map
          /\ unhandled' =
               IF typeCheckServiceFactories(map) = Undefined THEN unhandled
               ELSE unhandled \cup {typeCheckServiceFactories(map)}
          /\ frames' = [frames EXCEPT !["configure"].pc = "registerRoutes"]
          /\ events' = Append(events,
               Event(frames["configure"].id, "createServiceFactories", 0, "returned", map))
     \/ \E e \in FactoryErrors :
          /\ events' = Append(events, Rejects("configure", e))
          /\ frames' = [frames EXCEPT !["configure"] = Idle]
          /\ UNCHANGED <<serviceFactories, unhandled>>
  /\ UNCHANGED <<koa, server, sockets, process>>
  /\ UNCHANGED <<statics, handler, concurrent, testing>>

\* `await this.registerRoutes(this.router)`.
RegisterRoutes ==
  /\ process = "running"
  /\ frames["configure"].pc = "registerRoutes"
  /\ \/ /\ frames' = [frames EXCEPT !["configure"].pc = "createKoa"]
        /\ events' = events
     \/ \E e \in FactoryErrors :
          /\ events' = Append(events, Rejects("configure", e))
          /\ frames' = [frames EXCEPT !["configure"] = Idle]
  /\ UNCHANGED <<serviceFactories, koa, server, sockets, unhandled, process>>
  /\ UNCHANGED <<statics, handler, concurrent, testing>>

\* `this.koa = await this.createKoa()`, and configure returns.
CreateKoa ==
  /\ process = "running"
  /\ frames["configure"].pc = "createKoa"
  /\ koa' = Koa
  /\ events' = Append(events, Resolves("configure"))
  /\ frames' = [frames EXCEPT !["configure"] = Idle]
  /\ UNCHANGED <<serviceFactories, server, sockets, unhandled, process>>
  /\ UNCHANGED <<statics, handler, concurrent, testing>>

\* `async start()` is called: the guard, and the entries startServiceFactories
\* will iterate.
Start ==
  /\ CanCall("start")
  /\ IF serviceFactories = Undefined
     THEN /\ events' = events \o
               <<Event(NextCallId, "start", 0, "invoked", Undefined),
                 Event(NextCallId, "start", 0, "threw", NotConfigured)>>
          /\ frames' = frames
     ELSE /\ events' = Append(events, Event(NextCallId, "start", 0, "invoked", Undefined))
          /\ frames' = [frames EXCEPT !["start"] =
                          Frame("startServiceFactories", NextCallId, 1, serviceFactories)]
  /\ UNCHANGED <<serviceFactories, koa, server, sockets, unhandled, process>>
  /\ UNCHANGED <<statics, handler, concurrent, testing>>

\* forEachServiceFactory with a loop that catches what a hook throws and goes
\* on with the next factory.
ForEachServiceFactory_KeepsGoing(m, hook, after) ==
  LET f == frames[m]
      last == f.i = Len(f.entries.entries)
  IN
  /\ \E outcome \in {"returned", "threw"} :
       events' =
         IF last /\ after = "idle"
         THEN events \o <<Event(f.id, hook, f.i, outcome,
                                 IF outcome = "threw" THEN TypeError ELSE Undefined),
                           Resolves(m)>>
         ELSE Append(events, Event(f.id, hook, f.i, outcome,
                                   IF outcome = "threw" THEN TypeError ELSE Undefined))
  /\ frames' = [frames EXCEPT ![m] =
       IF ~last THEN [f EXCEPT !.i = f.i + 1]
       ELSE IF after = "idle" THEN Idle
       ELSE [f EXCEPT !.pc = after]]

\* One iteration of forEachServiceFactory for method m, calling the hook named
\* hook on the entry at the frame's position; `after` is where the call goes
\* when the loop is over ("idle": the method returns).  A value that is no
\* factory has no such method, and calling it is a TypeError.
ForEachServiceFactory(m, hook, after) ==
  LET f == frames[m]
      factory == f.entries.entries[f.i]
      last == f.i = Len(f.entries.entries)
  IN
  IF ~InstanceOfServiceFactory(factory)
  THEN /\ events' = Append(events, Rejects(m, TypeError))
       /\ frames' = [frames EXCEPT ![m] = Idle]
  ELSE
    \/ /\ events' =
            IF last /\ after = "idle"
            THEN events \o <<Event(f.id, hook, f.i, "returned", Undefined), Resolves(m)>>
            ELSE Append(events, Event(f.id, hook, f.i, "returned", Undefined))
       /\ frames' = [frames EXCEPT ![m] =
            IF ~last THEN [f EXCEPT !.i = f.i + 1]
            ELSE IF after = "idle" THEN Idle
            ELSE [f EXCEPT !.pc = after]]
    \/ \E e \in FactoryErrors :
         /\ events' = events \o <<Event(f.id, hook, f.i, "threw", e), Rejects(m, e)>>
         /\ frames' = [frames EXCEPT ![m] = Idle]

\* startServiceFactories: `factory.start()` of the next factory.
StartServiceFactory ==
  /\ process = "running"
  /\ frames["start"].pc = "startServiceFactories"
  /\ ForEachServiceFactory("start", "factory.start", "startServer")
  /\ UNCHANGED <<serviceFactories, koa, server, sockets, unhandled, process>>
  /\ UNCHANGED <<statics, handler, concurrent, testing>>

Listening == {n \in DOMAIN sockets : sockets[n]}

\* `this.server = await this.startServer(this.koa)`: koa.callback(),
\* http.createServer and server.listen(port).  With no koa the call is a
\* TypeError.  When another server of the process is still listening, the port
\* may be taken: the 'error' event of the new server has no listener and ends
\* the process.
StartServer ==
  /\ process = "running"
  /\ frames["start"].pc = "startServer"
  /\ LET f == frames["start"]
         n == Len(sockets) + 1
     IN
     IF koa = Undefined
     THEN /\ events' = Append(events, Rejects("start", TypeError))
          /\ frames' = [frames EXCEPT !["start"] = Idle]
          /\ UNCHANGED <<server, sockets, process>>
     ELSE
       \/ /\ sockets' = Append(sockets, TRUE)
          /\ server' = Server(n)
          /\ events' = events \o <<Event(f.id, "listen", n, "returned", Undefined), Resolves("start")>>
          /\ frames' = [frames EXCEPT !["start"] = Idle]
          /\ process' = process
       \/ /\ Listening # {}
          /\ sockets' = Append(sockets, FALSE)
          /\ events' = Append(events, Event(f.id, "listen", n, "threw", Err("Error", "EADDRINUSE")))
          /\ process' = "exited"
          /\ UNCHANGED <<server, frames>>
  /\ UNCHANGED <<serviceFactories, koa, unhandled>>
  /\ UNCHANGED <<statics, handler, concurrent, testing>>

\* server.close(callback) on the n-th server: the callback gets an error when
\* the server was not listening.
Close(id, n) ==
  Event(id, "close", n, "returned",
        IF sockets[n] THEN Undefined ELSE Err("Error", "ERR_SERVER_NOT_RUNNING"))

\* stop() without the stopServer call: the factories are stopped while the
\* socket stays open.
Stop_KeepsListening ==
  /\ CanCall("stop")
  /\ serviceFactories # Undefined
  /\ events' = Append(events, Event(NextCallId, "stop", 0, "invoked", Undefined))
  /\ frames' = [frames EXCEPT !["stop"] =
                  Frame("stopServiceFactories", NextCallId, 1, serviceFactories)]
  /\ UNCHANGED <<serviceFactories, koa, server, sockets, unhandled, process>>
  /\ UNCHANGED <<statics, handler, concurrent, testing>>

\* `async stop()` is called: `if (this.server) await this.stopServer(this.server)`.
\* Without a server, stopServiceFactories is entered at once and reads the
\* entries of this.serviceFactories (a TypeError when there are none).
Stop ==
  /\ CanCall("stop")
  /\ LET invoked == Event(NextCallId, "stop", 0, "invoked", Undefined) IN
     IF server # Undefined
     THEN /\ events' = events \o <<invoked, Close(NextCallId, server.id)>>
          /\ sockets' = [sockets EXCEPT ![server.id] = FALSE]
          /\ frames' = [frames EXCEPT !["stop"] =
                          Frame("stopServiceFactories", NextCallId, 1, Undefined)]
     ELSE IF serviceFactories = Undefined
     THEN /\ events' = events \o <<invoked, Event(NextCallId, "stop", 0, "threw", TypeError)>>
          /\ UNCHANGED <<sockets, frames>>
     ELSE /\ events' = Append(events, invoked)
          /\ frames' = [frames EXCEPT !["stop"] =
                          Frame("stopServiceFactories", NextCallId, 1, serviceFactories)]
          /\ sockets' = sockets
  /\ UNCHANGED <<serviceFactories, koa, server, unhandled, process>>
  /\ UNCHANGED <<statics, handler, concurrent, testing>>

\* stopServiceFactories: after the close, the entries of this.serviceFactories
\* are read (a TypeError when there are none); then `factory.stop()` of the
\* next factory.
StopServiceFactory ==
  /\ process = "running"
  /\ frames["stop"].pc = "stopServiceFactories"
  /\ IF frames["stop"].entries = Undefined
     THEN IF serviceFactories = Undefined
          THEN /\ events' = Append(events, Rejects("stop", TypeError))
               /\ frames' = [frames EXCEPT !["stop"] = Idle]
          ELSE /\ frames' = [frames EXCEPT !["stop"].entries = serviceFactories]
               /\ events' = events
     ELSE ForEachServiceFactory("stop", "factory.stop", "idle")
  /\ UNCHANGED <<serviceFactories, koa, server, sockets, unhandled, process>>
  /\ UNCHANGED <<statics, handler, concurrent, testing>>

\* node ends the process on a rejection nobody handles (its default since
\* version 15; older versions only print a warning).
UnhandledRejection ==
  /\ process = "running"
  /\ unhandled # {}
  /\ process' = "exited"
  /\ UNCHANGED <<serviceFactories, koa, server, sockets, frames, events, unhandled>>
  /\ UNCHANGED <<statics, handler, concurrent, testing>>

ApplicationNext ==
  \/ Configure
  \/ CreateServiceFactories
  \/ RegisterRoutes
  \/ CreateKoa
  \/ Start
  \/ StartServiceFactory
  \/ StartServer
  \/ Stop
  \/ StopServiceFactory
  \/ UnhandledRejection

ApplicationSpec == Init /\ [][ApplicationNext]_vars

(***************************************************************************)
(* The Application driven by a program that awaits each call               *)
(***************************************************************************)
\* How many calls of configure, start and stop the awaiting program makes.
MaxAwaitedCalls == 3

\* `await app.configure(); await app.start(); ... await app.stop()`: no call
\* of configure, start or stop is outstanding when the next one is made.
Awaited ==
  /\ \A m \in Methods : frames[m].pc = "idle"
  /\ Cardinality(Invocations) < MaxAwaitedCalls

ConfigureAwaited == Awaited /\ Configure
StartAwaited == Awaited /\ Start
StopAwaited == Awaited /\ Stop

LifecycleNext ==
  \/ ConfigureAwaited
  \/ CreateServiceFactories
  \/ RegisterRoutes
  \/ CreateKoa
  \/ StartAwaited
  \/ StartServiceFactory
  \/ StartServer
  \/ StopAwaited
  \/ StopServiceFactory
  \/ UnhandledRejection

LifecycleSpec == Init /\ [][LifecycleNext]_vars

(***************************************************************************)
(* Handlers of several requests, interleaved at their awaits               *)
(*                                                                         *)
(* The steps of createHandler and run that create, start and stop the      *)
(* services of a request and construct its Action.  Hooks return normally  *)
(* here, and what run does between starting and stopping the services is   *)
(* one step.                                                               *)
(***************************************************************************)
\* createServiceInstances('action', ctx): `const services = {}` and
\* createServiceContext(type, services, koaCtx).
createServiceInstances(h, r, uid) ==
  LET servicesMap == NewObject(r, 1)
      serviceContext == NewObject(r, 2)
  IN [h EXCEPT ![servicesMap] = ServicesMap(r),
               ![serviceContext] = ServiceContext(r, servicesMap, uid, "action")]

\* A request arrives at a route of some Action subtype and its handler calls
\* app.createServiceInstances.
BeginRequest(r) ==
  /\ requests[r].pc = "idle"
  /\ \E c \in ConcreteActions, uid \in Uids :
       /\ heap' = createServiceInstances(heap, r, uid)
       /\ requests' = [requests EXCEPT ![r] =
            [pc |-> "createService", ctor |-> c, services |-> NewObject(r, 1),
             context |-> NewObject(r, 2), i |-> 1, allocated |-> 2]]
  /\ UNCHANGED <<statics, compilations, validatorErrors, handler, application, testing>>

\* ContextPassed, with the context kept where concurrent calls overwrite it:
\* a factory gets the context of another call that is creating services.
ContextPassed_Shared(r) ==
  IF \E o \in Requests : o # r /\ requests[o].context # NoObject
  THEN requests[CHOOSE o \in Requests : o # r /\ requests[o].context # NoObject].context
  ELSE requests[r].context

\* The context createServiceInstancesForContext hands to the factories: the
\* serviceContext of its own createServiceInstances call.
ContextPassed(r) == requests[r].context

\* createServiceInstancesForContext, one factory:
\* `services[name] = await factory.createService(serviceContext)`, the factory
\* returning `new Service(ctx)`.
CreateServiceFor(r) ==
  /\ requests[r].pc = "createService"
  /\ LET q == requests[r]
         service == NewObject(r, q.allocated + 1)
     IN
     /\ heap' = [heap EXCEPT
          ![service] = NewService(heap, r, q.i, ContextPassed(r)),
          ![q.services].entries = Append(@, service)]
     /\ requests' = [requests EXCEPT ![r] =
          [q EXCEPT !.allocated = q.allocated + 1,
                    !.i = IF q.i = NumServices THEN 0 ELSE q.i + 1,
                    !.context = IF q.i = NumServices THEN NoObject ELSE q.context,
                    !.pc = IF q.i = NumServices THEN "construct" ELSE "createService"]]
  /\ UNCHANGED <<statics, compilations, validatorErrors, handler, application, testing>>

\* `new this(app, services)`: the constructor, which runs to its end without
\* an await.
ConstructFor(r) ==
  /\ requests[r].pc = "construct"
  /\ LET q == requests[r]
         e == ensureValidatorsCreated(validators, ajv, q.ctor)
     IN
     /\ validators' = e.validators
     /\ ajv' = e.ajv
     /\ compilations' = [compilations EXCEPT ![q.ctor] =
          [s \in Stages |-> IF s \in e.compiled THEN @[s] + 1 ELSE @[s]]]
     /\ requests' = [requests EXCEPT ![r] =
          [q EXCEPT !.pc = IF e.threw THEN "rejected" ELSE "startService",
                    !.i = IF e.threw THEN 0 ELSE 1]]
  /\ UNCHANGED <<heap, validatorErrors, handler, application, testing>>

\* forEachService(this.services, ...): the service under the i-th key.
ServiceAt(h, r, n) == h[requests[r].services].entries[n]

\* startServiceInstances(this.services): start() of the next service.
StartServiceFor(r) ==
  /\ requests[r].pc = "startService"
  /\ LET q == requests[r] IN
     /\ heap' = [heap EXCEPT ![ServiceAt(heap, r, q.i)].started = Append(@, r)]
     /\ requests' = [requests EXCEPT ![r] =
          IF q.i = Len(heap[q.services].entries)
          THEN [q EXCEPT !.pc = "run", !.i = 0]
          ELSE [q EXCEPT !.i = q.i + 1]]
  /\ UNCHANGED <<statics, compilations, validatorErrors, handler, application, testing>>

\* run from the 'request started' log to afterStopServices' predecessor: the
\* request is validated, handled and answered.
RunFor(r) ==
  /\ requests[r].pc = "run"
  /\ requests' = [requests EXCEPT ![r].pc = "stopService", ![r].i = 1]
  /\ UNCHANGED <<statics, heap, compilations, validatorErrors, handler, application, testing>>

\* stopServiceInstances(this.services): stop() of the next service.
StopServiceFor(r) ==
  /\ requests[r].pc = "stopService"
  /\ LET q == requests[r] IN
     /\ heap' = [heap EXCEPT ![ServiceAt(heap, r, q.i)].stopped = Append(@, r)]
     /\ requests' = [requests EXCEPT ![r] =
          IF q.i = Len(heap[q.services].entries)
          THEN [q EXCEPT !.pc = "done", !.i = 0]
          ELSE [q EXCEPT !.i = q.i + 1]]
  /\ UNCHANGED <<statics, compilations, validatorErrors, handler, application, testing>>

RequestsNext ==
  \E r \in Requests :
    \/ BeginRequest(r)
    \/ CreateServiceFor(r)
    \/ ConstructFor(r)
    \/ StartServiceFor(r)
    \/ RunFor(r)
    \/ StopServiceFor(r)

RequestsSpec == Init /\ [][RequestsNext]_vars

(***************************************************************************)
(* Concurrent requests validated by the cached validators                  *)
(***************************************************************************)
\* Values of the property a schema names, in concurrent requests: one that
\* every schema of the model accepts, one that every schema rejects.
ConcurrentValues == {Num(1), Str("abc")}

\* The class whose own `validators` property the lookup this.ctor.validators
\* finds for class c: the validator objects live there.
RECURSIVE ValidatorsHolder(_, _)
ValidatorsHolder(vs, c) ==
  IF vs[c] # Undefined \/ c = "Action" THEN c
  ELSE ValidatorsHolder(vs, ActionParent(c))

\* validate.errors after a call of the compiled function made for request r:
\* null when the value was valid, otherwise the array made by that call.
ErrorsArray(r, list) == [t |-> "array", producedFor |-> r, items |-> list]
ErrorsAfter(r, v, x) ==
  IF Ajv(v, x).valid THEN Null ELSE ErrorsArray(r, Ajv(v, x).errors)

\* The body, params and query of a request validated with the validators vd;
\* a field no validator reads stays Unread.
ValuesFor(vd) ==
  {vals \in [Stages -> ConcurrentValues \cup {Unread}] :
     \A s \in Stages : vals[s] = Unread <=> vd[s] = Undefined}

\* The errors of a 400 response, read from validator.errors when the response
\* is written and not when the validator returned.
ErrorsInResponse_ReadLate(read, shared) == shared

\* The errors of a 400 response: `errors: this.validator.errors` is evaluated
\* in the return statement of ValidatorBase.validate, and the Result keeps
\* what was read there; shared is validator.errors when the response is
\* written.
ErrorsInResponse(read, shared) == read

\* A request arrives at a route of some Action subtype and its handler gets as
\* far as `await this.validate(ctx)`: the services are created and started
\* and the Action is constructed.
ArriveFor(r) ==
  /\ requests[r].pc = "idle"
  /\ \E c \in ConcreteActions :
       LET e == ensureValidatorsCreated(validators, ajv, c) IN
       /\ validators' = e.validators
       /\ ajv' = e.ajv
       /\ compilations' = [compilations EXCEPT ![c] =
            [s \in Stages |-> IF s \in e.compiled THEN @[s] + 1 ELSE @[s]]]
       /\ requests' = [requests EXCEPT ![r].ctor = c,
            ![r].pc = IF e.threw THEN "rejected" ELSE "run"]
  /\ UNCHANGED <<heap, validatorErrors, handler, application, testing>>

\* Action.validate for request r, which runs from its first statement to its
\* return without an await: every validator it calls leaves its errors in the
\* compiled function, and the Result of a failed stage takes them from there.
ValidateFor(r) ==
  /\ requests[r].pc = "run"
  /\ LET q == requests[r]
         vd == validatorsOf(validators, q.ctor)
         holder == ValidatorsHolder(validators, q.ctor)
     IN
     \E vals \in ValuesFor(vd) :
       LET v == validate(vd, vals["body"], vals["params"], vals["query"])
           called == {s \in Stages :
                        \E n \in DOMAIN v.calls : v.calls[n].op = ValidatorOf(s)}
           after == [s \in Stages |->
                       IF s \in called THEN ErrorsAfter(r, vd[s], vals[s])
                       ELSE validatorErrors[holder][s]]
           failed == {s \in called : ~Ajv(vd[s], vals[s]).valid}
       IN
       /\ validatorErrors' = [validatorErrors EXCEPT ![holder] = after]
       /\ requests' = [requests EXCEPT ![r] =
            [q EXCEPT !.pc = "validated",
                      !.values = vals,
                      !.failed = IF failed = {} THEN "none" ELSE CHOOSE s \in failed : TRUE,
                      !.errors = IF failed = {} THEN Null
                                 ELSE after[CHOOSE s \in failed : TRUE]]]
  /\ UNCHANGED <<statics, heap, compilations, handler, application, testing>>

\* The handler goes on after `await this.validate(ctx)` and the response is
\* written: the 400 Result of the failed stage, or the Result of handle.
\* shared records what validator.errors holds by then.
RespondFor(r) ==
  /\ requests[r].pc = "validated"
  /\ LET q == requests[r]
         holder == ValidatorsHolder(validators, q.ctor)
     IN
     requests' = [requests EXCEPT ![r] =
       [q EXCEPT !.pc = "done",
                 !.response =
                   IF q.failed = "none"
                   THEN [status |-> 200, errors |-> Null, shared |-> Null]
                   ELSE [status |-> 400,
                         errors |-> ErrorsInResponse(q.errors,
                                                     validatorErrors[holder][q.failed]),
                         shared |-> validatorErrors[holder][q.failed]]]]
  /\ UNCHANGED <<statics, heap, compilations, validatorErrors, handler, application, testing>>

ValidationNext ==
  \E r \in Requests :
    \/ ArriveFor(r)
    \/ ValidateFor(r)
    \/ RespondFor(r)

ValidationSpec == Init /\ [][ValidationNext]_vars

(***************************************************************************)
(* ServiceFactory.testSession: the getter and createTestSession            *)
(***************************************************************************)
\* `return new ServiceTestSession()`: the n-th object made for factory f.
createTestSession(f, n) ==
  [t |-> "object", class |-> "ServiceTestSession", factory |-> f, id |-> n]

\* The getter that calls createTestSession on every read.
testSession_Uncached(field, f, n) ==
  [_testSession |-> createTestSession(f, n), created |-> TRUE,
   value |-> createTestSession(f, n)]

\* `get testSession()`: fills this._testSession when it is falsy, then returns
\* it.  field is this._testSession before the read, n numbers the object a
\* call of createTestSession would make.
testSession(field, f, n) ==
  IF ~Truthy(field)
  THEN [_testSession |-> createTestSession(f, n), created |-> TRUE,
        value |-> createTestSession(f, n)]
  ELSE [_testSession |-> field, created |-> FALSE, value |-> field]

\* `factory.testSession`, read by the test harness for some factory.
ReadTestSession ==
  /\ Len(accesses) < MaxAccesses
  /\ \E f \in 1..NumServices :
       LET n == Cardinality({k \in DOMAIN accesses :
                               accesses[k].factory = f /\ accesses[k].created}) + 1
           got == testSession(testSessions[f], f, n)
       IN /\ testSessions' = [testSessions EXCEPT ![f] = got._testSession]
          /\ accesses' = Append(accesses, [factory |-> f, created |-> got.created,
                                            value |-> got.value])
  /\ UNCHANGED <<statics, handler, application, concurrent>>

TestSessionSpec == Init /\ [][ReadTestSession]_vars

(***************************************************************************)
(* Properties                                                              *)
(***************************************************************************)
\* The handler's promise has settled.
Finished == pc \in {"done", "rejected"}

\* Positions of the calls of op, and of op on service s, in the trace.
Calls(op) == {n \in DOMAIN trace : trace[n].op = op}
CallsOn(op, s) == {n \in DOMAIN trace : trace[n].op = op /\ trace[n].arg = s}
Threw(n) == trace[n].outcome = "threw"

\* Action.run was entered: the Action was constructed.
RunEntered == \E n \in Calls("construct") : ~Threw(n)

\* Calls made inside run's try block, and calls made outside it.
TryOps ==
  {"start", "log request started", "parseInput", "beforeHandle", "handle",
   "afterHandle", "checkOutput"}
OutsideTryOps ==
  {"createService", "construct", "log error", "handleResult", "log request ended",
   "beforeStopServices", "stop", "afterStopServices"}

\* beforeStopServices, then stop() on every service, then afterStopServices.
CleanupSequenceRan ==
  \E b \in Calls("beforeStopServices"), a \in Calls("afterStopServices") :
    /\ b < a
    /\ \A s \in services : \E n \in CallsOn("stop", s) : b < n /\ n < a

\* C1: on the paths of run the claim names (handle returns, handle throws,
\* validation fails, a service's start() throws: no other call throws), every
\* service of the request has start() invoked exactly once and stop() invoked
\* exactly once, start() before stop().
C1_StartStopOncePerService ==
  (pc = "done" /\ \A n \in DOMAIN trace : Threw(n) => trace[n].op \in {"start", "handle"})
    => \A s \in services :
         /\ Cardinality(CallsOn("start", s)) = 1
         /\ Cardinality(CallsOn("stop", s)) = 1
         /\ \A a \in CallsOn("start", s), b \in CallsOn("stop", s) : a < b

\* C2: on every exit path of run on which the cleanup calls themselves and the
\* 'request ended' log do not throw (normal completion, validation failure, an
\* exception in the pipeline, an exception while mapping the error to a
\* Result), beforeStopServices -> stopServiceInstances -> afterStopServices
\* is executed, in that order.
C2_CleanupOnEveryExit ==
  ( /\ Finished
    /\ RunEntered
    /\ \A n \in DOMAIN trace :
         Threw(n) => trace[n].op \in TryOps \cup {"log error", "handleResult"} )
    => CleanupSequenceRan

\* C3 as stated: no exception ever propagates out of the handler that
\* createHandler returns.
C3_NoErrorReachesHttpLayer == pc # "rejected"

\* C3 as amended: every error raised inside run's try block is caught and
\* handed to handleError, and the handler completes with an exception exactly
\* when a call outside that try block throws (createService, the Action
\* constructor, the log call of handleError, the 'request ended' log,
\* beforeStopServices, a service's stop() or afterStopServices).
C3_OnlyErrorsOutsideTryEscape ==
  /\ pc = "rejected" => \E n \in DOMAIN trace : Threw(n) /\ trace[n].op \in OutsideTryOps
  /\ pc = "done" => \A n \in DOMAIN trace : Threw(n) => trace[n].op \in TryOps
  /\ \A n \in DOMAIN trace :
       (Threw(n) /\ trace[n].op \in TryOps) =>
          /\ error # Undefined
          /\ n = Len(trace) => pc \in {"catch", "finally"}

\* C3 witness: handle threw, the error was mapped to a Result and the handler
\* completed normally.
C3_Witness ==
  /\ pc = "done"
  /\ \E n \in Calls("handle") : Threw(n)
  /\ ctx.status = result.status

\* The table of the error taxonomy, as the claims state it.
ExpectedStatus(class) ==
  CASE class = "NotFoundError" -> 404
    [] class = "UnauthorizedError" -> 401
    [] class = "ForbiddenError" -> 403
    [] class = "ConflictError" -> 409
    [] OTHER -> 500
ExpectedTag(class) ==
  CASE class = "NotFoundError" -> "NotFound"
    [] class = "UnauthorizedError" -> "Unauthorized"
    [] class = "ForbiddenError" -> "Forbidden"
    [] class = "ConflictError" -> "Conflict"
    [] OTHER -> "Internal"

\* C4: every exception raised inside run's try block is answered according to
\* the class of the error alone: NotFoundError 404 {error: 'NotFound'},
\* UnauthorizedError 401, ForbiddenError 403, ConflictError 409 and every other
\* error 500 {error: 'Internal'}.
C4_ErrorKindDeterminesResponse ==
  (Finished /\ error # Undefined) =>
    /\ ctx.status = ExpectedStatus(error.class)
    /\ ctx.body = ErrorBody(ExpectedTag(error.class))

\* C5: any two requests that fail with unknown (non-taxonomy) errors get the
\* same response, status 500 and body exactly {error: 'Internal'}, whatever
\* the message of the error, and the error is passed to the log exactly once.
C5_UnknownErrorsIndistinguishable ==
  (Finished /\ error # Undefined /\ error.class \notin TaxonomyErrors) =>
    /\ Cardinality(Calls("log error")) = 1
    /\ ctx.status = 500
    /\ ctx.body = ErrorBody("Internal")

\* The validator calls of the trace, and the stage each validator class serves.
ValidatorOps == {"BodyValidator", "ParamsValidator", "QueryValidator"}
StageRank(op) ==
  CASE op = "BodyValidator" -> 1
    [] op = "ParamsValidator" -> 2
    [] op = "QueryValidator" -> 3
StageValidator(vd, op) ==
  CASE op = "BodyValidator" -> vd.body
    [] op = "ParamsValidator" -> vd.params
    [] op = "QueryValidator" -> vd.query
ValidatorCalls == {n \in DOMAIN trace : trace[n].op \in ValidatorOps}
ValidationFailed == \E n \in ValidatorCalls : trace[n].outcome = "invalid"

\* The 400 Result the claims expect when the validator called at position n
\* of the trace failed: one type error for the property of that stage's schema.
ExpectedValidationResult(n) ==
  LET v == StageValidator(validatorsOf(validators, ctor), trace[n].op) IN
  [status |-> 400,
   body |-> [t |-> "object", toJSON |-> FALSE, error |-> "Validation",
             errors |-> <<[keyword |-> "type", dataPath |-> v.schema.prop,
                           params |-> [type |-> v.schema.type]]>>]]

PipelineOps == {"parseInput", "beforeHandle", "handle", "afterHandle"}

\* C6: when a validation stage fails, the Result is 400 {error: 'Validation',
\* errors: <the failing stage's errors>}, none of parseInput, beforeHandle,
\* handle, afterHandle is invoked for the request, and the response and the
\* service cleanup still happen.
C6_ValidationFailureShortCircuits ==
  (Finished /\ ValidationFailed) =>
    /\ \A n \in ValidatorCalls :
         trace[n].outcome = "invalid" => result = ExpectedValidationResult(n)
    /\ \A n \in DOMAIN trace : trace[n].op \notin PipelineOps
    /\ ctx.status = 400
    /\ ctx.body = result.body
    /\ CleanupSequenceRan

\* Action.validate has returned for the current request.
ValidationDone ==
  /\ \E n \in Calls("log request started") : ~Threw(n)
  /\ pc # "validate"

\* C7: validate calls the validators in the order body, params, query, each at
\* most once, calls every validator the class has until one fails, calls none
\* after a failed one, and returns the Result of the first failing stage.
C7_ValidationOrderAndShortCircuit ==
  /\ \A m \in ValidatorCalls, n \in ValidatorCalls :
       m < n => /\ StageRank(trace[m].op) < StageRank(trace[n].op)
                /\ trace[m].outcome = "returned"
  /\ \A n \in ValidatorCalls :
       trace[n].outcome = "invalid" => result = ExpectedValidationResult(n)
  /\ ValidationDone =>
       \A op \in ValidatorOps :
         StageValidator(validatorsOf(validators, ctor), op) # Undefined =>
           \/ Calls(op) # {}
           \/ \E n \in ValidatorCalls :
                StageRank(trace[n].op) < StageRank(op) /\ trace[n].outcome = "invalid"

\* C7 witness: the body passed, the params failed and the query validator was
\* never called, although the class has one.
C7_Witness ==
  /\ \E n \in Calls("BodyValidator") : trace[n].outcome = "returned"
  /\ \E n \in Calls("ParamsValidator") : trace[n].outcome = "invalid"
  /\ Calls("QueryValidator") = {}
  /\ validatorsOf(validators, ctor).query # Undefined
  /\ result.status = 400

\* Whether x already has the JSON type a schema asks for.
NativeType(type, x) == IF type = "integer" THEN x.t = "number" ELSE x.t = "boolean"

\* C8: the body validator accepts a value only if it already has the declared
\* type (a numeric-looking string fails an integer schema and the Result is
\* 400), while the params and query validators accept a numeric-looking string
\* for an integer schema and 'true'/'false' for a boolean schema, and still
\* reject any other string.
C8_CoercionOnlyForParamsAndQuery ==
  \A n \in ValidatorCalls :
    LET c == trace[n]
        type == StageValidator(validatorsOf(validators, ctor), c.op).schema.type
    IN
    /\ c.op = "BodyValidator" =>
         /\ c.outcome = "returned" <=> NativeType(type, c.value)
         /\ c.outcome = "invalid" => result = ExpectedValidationResult(n)
    /\ c.op \in {"ParamsValidator", "QueryValidator"} =>
         /\ (type = "integer" /\ c.value = Str("1")) => c.outcome = "returned"
         /\ (type = "boolean" /\ c.value \in {Str("true"), Str("false")}) =>
              c.outcome = "returned"
         /\ c.value = Str("abc") => c.outcome = "invalid"

\* C8 witness: the string "1" passed the integer schema of the params and was
\* coerced in place, and the string "true" passed the boolean schema of the query.
C8_Witness ==
  /\ \E n \in Calls("ParamsValidator") :
       trace[n].value = Str("1") /\ trace[n].outcome = "returned"
  /\ \E n \in Calls("QueryValidator") :
       trace[n].value = Str("true") /\ trace[n].outcome = "returned"
  /\ ctx.params = Num(1)
  /\ ctx.query = Bool(TRUE)

\* The schemas a class ends up with declare nothing for body, params or query.
DeclaresNoSchemas(c) == schemasOf(c) = Schemas(NoSchema, NoSchema, NoSchema)

C10_SuccessResponse ==
  \A k \in Calls("handleResult") :
    ((\A n \in 1..k : ~Threw(n)) /\ ~ValidationFailed) =>
      /\ ctx.status = 200
      /\ \E a \in Calls("afterHandle") : ctx.body = trace[a].value

\* C10 witness: handle returned one value, afterHandle another, and the
\* response is 200 with the value of afterHandle.
C10_Witness ==
  /\ pc = "done"
  /\ ctx.status = 200
  /\ \E h \in Calls("handle"), a \in Calls("afterHandle") :
       /\ trace[h].value = ModelObject
       /\ trace[a].value = Arr(<<PlainObject>>)
       /\ ctx.body = trace[a].value

\* What C11 calls plain: a primitive, an object without toJSON, or an array
\* all of whose elements are plain, a null element included.
RECURSIVE PlainAsClaimed(_)
PlainAsClaimed(x) ==
  CASE x.t = "array" -> \A n \in 1..Len(x.items) : PlainAsClaimed(x.items[n])
    [] x.t = "object" -> ~x.toJSON
    [] OTHER -> TRUE

\* C11: the output check fails the request exactly when the final output of
\* the handler is neither null nor undefined and is not plain; for every other
\* output, arrays containing null or primitives included, the Result is 200
\* with that output.
C11_OutputCheck ==
  \A n \in Calls("checkOutput") :
    /\ Threw(n) <=> (output.t \notin {"null", "undefined"} /\ ~PlainAsClaimed(output))
    /\ ~Threw(n) => (pc = "finally" => result = [status |-> 200, body |-> output])

(***************************************************************************)
(* Properties of the Application                                           *)
(***************************************************************************)
\* Events of the call numbered id, and the positions of the events of an
\* operation.
EventsOf(id) == {n \in DOMAIN events : events[n].call = id}
EventsOn(op) == {n \in DOMAIN events : events[n].op = op}
\* Calls of configure that completed successfully before position n.
ConfiguredBefore(n) ==
  \E m \in EventsOn("configure") : m < n /\ events[m].outcome = "returned"

\* C12: a configure() call whose createServiceFactories returned a map with a
\* value that is no ServiceFactory does not complete successfully: its promise
\* rejects.
C12_NonFactoryFailsConfigure ==
  \A n \in EventsOn("createServiceFactories") :
    (\E k \in DOMAIN events[n].value.entries :
        ~InstanceOfServiceFactory(events[n].value.entries[k]))
    => \A m \in EventsOf(events[n].call) :
         ~(events[m].op = "configure" /\ events[m].outcome = "returned")

\* C13: a start() call made when no configure() call has completed successfully
\* rejects with the 'run configure before start' error, starts no service
\* factory and opens no listening socket.
C13_StartBeforeConfigureFails ==
  \A n \in EventsOn("start") :
    (events[n].outcome = "invoked" /\ ~ConfiguredBefore(n)) =>
      \A m \in EventsOf(events[n].call) :
        /\ events[m].op \notin {"factory.start", "listen"}
        /\ events[m].outcome = "returned" => events[m].op # "start"
        /\ (events[m].op = "start" /\ events[m].outcome = "threw") =>
             events[m].value = NotConfigured

\* The close at position n belongs to a stop() call that directly follows a
\* stop() call that was made after a start() had returned and that returned
\* itself.
SecondStopInARow(n) ==
  \E s \in EventsOn("start"), m \in EventsOn("stop") :
    /\ events[s].outcome = "returned"
    /\ events[m].outcome = "returned"
    /\ \A k \in EventsOf(events[m].call) : s < k
    /\ m < n
    /\ \A k \in (m + 1)..n : events[k].call = events[n].call

\* C14: the second of two stop() calls in a row after a successful start()
\* makes no attempt to close the socket the first one closed.
C14_SecondStopSkipsClose ==
  \A n \in EventsOn("close") : ~SecondStopInARow(n)

\* C15: on an application whose start() was never called, stop() completes
\* without throwing and closes no socket.
C15_StopWithoutStart ==
  (EventsOn("start") = {}) =>
    \A n \in DOMAIN events :
      /\ events[n].op # "close"
      /\ events[n].op = "stop" => events[n].outcome # "threw"

\* The calls of a hook on the factory under key f.
HookCalls(hook, f) == {n \in EventsOn(hook) : events[n].arg = f}

\* C16: while the application has one set of factories, each factory has
\* start() invoked at most once and stop() at most once, and stop() only after
\* its start() was invoked.
C16_FactoryHooksAtMostOnce ==
  (Cardinality(EventsOn("createServiceFactories")) <= 1) =>
    \A f \in 1..NumServices :
      /\ Cardinality(HookCalls("factory.start", f)) <= 1
      /\ Cardinality(HookCalls("factory.stop", f)) <= 1
      /\ \A n \in HookCalls("factory.stop", f) :
           \E m \in HookCalls("factory.start", f) : m < n

(***************************************************************************)
(* Properties of concurrent requests                                       *)
(***************************************************************************)
\* The objects an object refers to.
References(a) ==
  CASE heap[a].kind = "services" -> {heap[a].entries[n] : n \in DOMAIN heap[a].entries}
    [] heap[a].kind = "context" -> {heap[a].services}
    [] heap[a].kind = "service" -> {heap[a].services}
    [] OTHER -> {}

RECURSIVE ReachableFrom(_)
ReachableFrom(S) ==
  LET T == S \cup UNION {References(a) : a \in S}
  IN IF T = S THEN S ELSE ReachableFrom(T)

\* The objects the handler of request r can reach: through its services map
\* and, while the services are created, through the service context.
Reachable(r) ==
  ReachableFrom({requests[r].services, requests[r].context} \ {NoObject})

InFlight(r) == requests[r].pc \notin {"idle", "done", "rejected"}

\* C17: every services map, service context and Service instance the handler
\* of a request can reach was created for that request, and start() and stop()
\* are called on a Service instance only by the request it was created for.
C17_RequestsShareNoServices ==
  /\ \A r \in Requests : \A a \in Reachable(r) : heap[a].createdBy = r
  /\ \A a \in Addresses :
       heap[a].kind = "service" =>
         /\ \A n \in DOMAIN heap[a].started : heap[a].started[n] = heap[a].createdBy
         /\ \A n \in DOMAIN heap[a].stopped : heap[a].stopped[n] = heap[a].createdBy

\* C17 witness: two requests are in flight with all their services started,
\* and each reaches a services map, and services in it, of its own.
C17_Witness ==
  \E r1 \in Requests, r2 \in Requests :
    /\ r1 # r2
    /\ requests[r1].pc = "run" /\ requests[r2].pc = "run"
    /\ Reachable(r1) \cap Reachable(r2) = {}
    /\ \A r \in {r1, r2} :
         /\ Len(heap[requests[r].services].entries) = NumServices
         /\ \A n \in 1..NumServices : heap[ServiceAt(heap, r, n)].started = <<r>>

\* The Service instances made by createService of factory f for request r.
CreatedBy(r, f) ==
  {a \in Addresses :
     heap[a].kind = "service" /\ heap[a].createdBy = r /\ heap[a].factory = f}

\* The factories createServiceInstancesForContext has called for request r.
FactoriesCalled(r) ==
  CASE requests[r].pc = "idle" -> {}
    [] requests[r].pc = "createService" -> 1..(requests[r].i - 1)
    [] OTHER -> 1..NumServices

\* C18: a createServiceInstances call invokes createService once on each
\* factory, every time with the one ServiceContext built for this call (its
\* uid, the type tag 'action', and the services map of this call), and the map
\* it returns has exactly the keys of the factories map, each holding the
\* service its factory created.
C18_OneContextOneServicePerFactory ==
  \A r \in Requests :
    /\ \A f \in 1..NumServices :
         Cardinality(CreatedBy(r, f)) = (IF f \in FactoriesCalled(r) THEN 1 ELSE 0)
    /\ requests[r].pc # "idle" =>
         /\ DOMAIN heap[requests[r].services].entries = FactoriesCalled(r)
         /\ \E c \in Addresses :
              /\ heap[c].kind = "context"
              /\ heap[c].createdBy = r
              /\ heap[c].type = "action"
              /\ heap[c].services = requests[r].services
              /\ \A f \in FactoriesCalled(r) :
                   LET a == heap[requests[r].services].entries[f] IN
                   /\ a \in CreatedBy(r, f)
                   /\ heap[a].ctx = c
                   /\ heap[a].instanceId = heap[c].uid
                   /\ heap[a].services = requests[r].services

\* C18 witness: createServiceInstances has returned for one request, with a
\* service under every key, while another request with another uid is still
\* creating its services.
C18_Witness ==
  \E r \in Requests, o \in Requests :
    /\ requests[r].pc = "construct"
    /\ Len(heap[requests[r].services].entries) = NumServices
    /\ requests[o].pc = "createService" /\ requests[o].i > 1
    /\ heap[ServiceAt(heap, r, 1)].instanceId # heap[ServiceAt(heap, o, 1)].instanceId

\* Request r has an Action instance: its constructor has returned.
Constructed(r) == requests[r].pc \in {"startService", "run", "stopService", "done"}

\* C19: for every Action subtype and every stage a validator is constructed at
\* most once, however many instances concurrent requests create, and the
\* validators an instance of the subtype finds do not change once there are any.
C19_ValidatorsCompiledOnce ==
  /\ [](\A c \in ActionClasses : \A s \in Stages : compilations[c][s] <= 1)
  /\ [][\A c \in ConcreteActions :
          validatorsOf(validators, c) # Undefined =>
            validatorsOf(validators', c) = validatorsOf(validators, c)]_vars

\* C19 witness: two requests in flight each have an instance of UserAction,
\* and each of its three validators was constructed once.
C19_Witness ==
  \E r1 \in Requests, r2 \in Requests :
    /\ r1 # r2
    /\ requests[r1].ctor = "UserAction" /\ requests[r2].ctor = "UserAction"
    /\ Constructed(r1) /\ Constructed(r2)
    /\ InFlight(r1) /\ InFlight(r2)
    /\ \A s \in Stages : compilations["UserAction"][s] = 1

\* The schemas of class c that ajv compiles.
ValidSchemas(c) ==
  \A s \in Stages : schemasOf(c)[s] # NoSchema => ~CompileThrows(schemasOf(c)[s])

\* C20: the validators a request is validated with are those compiled from
\* the schemas its own Action subtype declares: one for each stage it declares
\* a schema for, compiled from that schema, and none for the other stages.
C20_ValidatorsFromOwnSchemas ==
  (ValidationDone /\ ValidSchemas(ctor)) =>
    \A s \in Stages :
      LET v == validatorsOf(validators, ctor)[s]
          schema == schemasOf(ctor)[s]
      IN IF schema = NoSchema THEN v = Undefined
         ELSE v # Undefined /\ v.schema = schema


\* C21: a failure thrown by a service's stop() is never swallowed. Whenever a
\* stop() call of the request threw, the run has rejected with exactly the
\* error that call threw, and the failed call is the last call of the request:
\* no stop() on a later service (nor anything else) follows it.
C21_StopFailurePropagates ==
  \A n \in Calls("stop") :
    Threw(n) =>
      /\ pc = "rejected"
      /\ rejection = trace[n].value
      /\ n = Len(trace)
      /\ \A m \in Calls("stop") : m # n => trace[m].arg < trace[n].arg

\* The first of two services threw from stop() while the second, started like
\* the first, was never stopped.
C21_Witness ==
  /\ pc = "rejected"
  /\ services = 1..2
  /\ \E n \in CallsOn("stop", 1) : Threw(n) /\ rejection = trace[n].value
  /\ \E n \in CallsOn("start", 2) : ~Threw(n)
  /\ CallsOn("stop", 2) = {}


\* C22: ServiceFactory.testSession creates the session on the first read and
\* returns the identical object on every later read: the first read of a
\* factory is the only one that calls createTestSession, and every read of a
\* factory returns the object its first read returned, which is the object the
\* factory holds.
C22_TestSessionCreatedOnce ==
  \A f \in 1..NumServices :
    LET reads == {k \in DOMAIN accesses : accesses[k].factory = f}
    IN /\ Cardinality({k \in reads : accesses[k].created}) <= 1
       /\ \A k \in reads :
            /\ accesses[k].created <=> (\A j \in reads : k <= j)
            /\ \A j \in reads : accesses[j].value = accesses[k].value
            /\ accesses[k].value = testSessions[f]
            /\ accesses[k].value.class = "ServiceTestSession"
       /\ reads = {} => testSessions[f] = Undefined

\* One factory was read three times, another one once, and the two factories
\* returned different sessions.
C22_Witness ==
  /\ Cardinality({k \in DOMAIN accesses : accesses[k].factory = 1}) >= 3
  /\ \E k, j \in DOMAIN accesses :
       /\ accesses[k].factory = 1
       /\ accesses[j].factory = 2
       /\ accesses[k].value # accesses[j].value


\* C23: once a configure() call has completed, the serviceFactories map of the
\* Application is never assigned again: no createServiceFactories result is
\* stored in this.serviceFactories after a configure() call returned.  (The
\* assignment in configure is the only write of the field; start, stop and the
\* service-instance helpers only read it.)
C23_FactoriesFixedAfterConfigure ==
  \A n \in EventsOn("createServiceFactories") :
    events[n].outcome = "returned" => ~ConfiguredBefore(n)


\* The log calls of the request.
LogOps == {"log request started", "log error", "log request ended"}

\* C24: every log call made during a request comes after start() has returned
\* on every service of the request and before stop() is called on any of them.
C24_LogsBetweenStartAndStop ==
  \A n \in DOMAIN trace :
    trace[n].op \in LogOps =>
      /\ \A s \in services :
           \E m \in CallsOn("start", s) : m < n /\ ~Threw(m)
      /\ \A m \in Calls("stop") : n < m


\* The steps of the pipeline after validation, in the order of run, the
\* response write last.
PipelineSteps == <<"parseInput", "beforeHandle", "handle", "afterHandle", "handleResult">>

\* C25: the pipeline is linear and single pass.  Within one request every
\* validator and each of parseInput, beforeHandle, handle, afterHandle and the
\* response write is called at most once, validation comes before all of them,
\* and the steps are called in the order of PipelineSteps.
C25_PipelineSinglePass ==
  /\ \A op \in ValidatorOps : Cardinality(Calls(op)) <= 1
  /\ \A k \in DOMAIN PipelineSteps :
       /\ Cardinality(Calls(PipelineSteps[k])) <= 1
       /\ \A n \in Calls(PipelineSteps[k]) :
            /\ \A m \in ValidatorCalls : m < n
            /\ \A j \in DOMAIN PipelineSteps :
                 k < j => \A m \in Calls(PipelineSteps[j]) : n < m


\* The events of call id, in order.
CallEvents(id) == SelectSeq(events, LAMBDA e : e.call = id)

\* C26: Application.start() starts the service factories one at a time in
\* map-iteration order and opens the listening socket only after every
\* factory's start() has completed.  In every start() call the k-th factory
\* start is that of the k-th entry and follows the returned start of entry
\* k-1; a listen comes after the returned start of every entry; and when a
\* factory's start() threw, the call rejects with that error at once: no later
\* factory is started and no socket is opened.
C26_StartOrder ==
  \A id \in {events[n].call : n \in EventsOn("start")} :
    LET es == CallEvents(id)
        starts == {k \in DOMAIN es : es[k].op = "factory.start"}
    IN \A k \in DOMAIN es :
         /\ es[k].op = "factory.start" =>
              /\ es[k].arg = Cardinality({j \in starts : j <= k})
              /\ \A j \in starts : j < k => es[j].outcome = "returned"
              /\ es[k].outcome = "threw" =>
                   /\ k < Len(es)
                   /\ es[k + 1].op = "start"
                   /\ es[k + 1].outcome = "threw"
                   /\ es[k + 1].value = es[k].value
                   /\ k + 1 = Len(es)
         /\ es[k].op = "listen" =>
              \A f \in 1..NumServices :
                \E j \in starts : j < k /\ es[j].arg = f /\ es[j].outcome = "returned"

\* One start() call was rejected by the start() of the second factory after
\* the first one had started, and opened no socket; a later start() call
\* started both factories and then opened the socket.
C26_Witness ==
  \E a, b \in EventsOn("start") :
    /\ events[a].outcome = "threw"
    /\ events[b].outcome = "returned"
    /\ a < b
    /\ \E n \in HookCalls("factory.start", 1) :
         events[n].call = events[a].call /\ events[n].outcome = "returned"
    /\ \E n \in HookCalls("factory.start", 2) :
         /\ events[n].call = events[a].call
         /\ events[n].outcome = "threw"
         /\ events[n].value = events[a].value
    /\ \A n \in EventsOn("listen") : events[n].call # events[a].call
    /\ \E n \in EventsOn("listen") :
         events[n].call = events[b].call /\ events[n].outcome = "returned"


\* The stop() call invoked at position n was made on a started application:
\* a start() call had returned before.
StartedBefore(n) ==
  \E m \in EventsOn("start") : m < n /\ events[m].outcome = "returned"

\* C27: Application.stop() on a started application first closes the listening
\* socket and only after the close has completed stops the service factories,
\* one at a time in map-iteration order.  The first thing such a stop() call
\* does is the close; every factory stop of the call comes after it, the k-th
\* one is that of the k-th entry and follows the returned stop of entry k-1.
C27_StopOrder ==
  \A n \in EventsOn("stop") :
    (events[n].outcome = "invoked" /\ StartedBefore(n)) =>
      LET es == CallEvents(events[n].call)
          stops == {k \in DOMAIN es : es[k].op = "factory.stop"}
      IN /\ Len(es) >= 2
         /\ es[2].op = "close"
         /\ es[2].outcome = "returned"
         /\ \A k \in stops :
              /\ 2 < k
              /\ es[k].arg = Cardinality({j \in stops : j <= k})
              /\ \A j \in stops : j < k => es[j].outcome = "returned"

\* A stop() call on a started application closed the listening socket, then
\* stopped the first and the second factory, and returned.
C27_Witness ==
  \E n \in EventsOn("stop") :
    /\ events[n].outcome = "returned"
    /\ LET es == CallEvents(events[n].call)
       IN /\ Len(es) = 5
          /\ es[2].op = "close" /\ es[2].value = Undefined
          /\ es[3].op = "factory.stop" /\ es[3].arg = 1
          /\ es[4].op = "factory.stop" /\ es[4].arg = 2
    /\ \E m \in EventsOn("start") : m < n /\ events[m].outcome = "returned"


\* createServiceInstances has returned for request r.
InstancesCreated(r) == requests[r].pc \notin {"idle", "createService"}

\* C28: when createService is called for the k-th factory, the shared services
\* map holds exactly the services of factories 1..k-1, in that order; and once
\* createServiceInstances has returned, every service created by the call
\* holds the one map of the call, which holds the services of all factories.
C28_SiblingsVisibleInOrder ==
  \A r \in Requests :
    /\ \A f \in 1..NumServices : \A a \in CreatedBy(r, f) :
         /\ heap[a].services = requests[r].services
         /\ Len(heap[a].siblings) = f - 1
         /\ \A k \in 1..(f - 1) :
              /\ heap[a].siblings[k] \in CreatedBy(r, k)
              /\ heap[a].siblings[k] = heap[heap[a].services].entries[k]
    /\ InstancesCreated(r) =>
         /\ Len(heap[requests[r].services].entries) = NumServices
         /\ \A f \in 1..NumServices :
              /\ heap[requests[r].services].entries[f] \in CreatedBy(r, f)
              /\ \A a \in CreatedBy(r, f) :
                   \A k \in 1..NumServices :
                     heap[heap[a].services].entries[k] \in CreatedBy(r, k)

\* Two requests have created their services: in each the second service was
\* created with the first one in the map, the first one with an empty map, and
\* now the first one finds the second one in the map it holds.
C28_Witness ==
  \A r \in 1..2 :
    /\ InstancesCreated(r)
    /\ \E a \in CreatedBy(r, 1), b \in CreatedBy(r, 2) :
         /\ heap[a].siblings = << >>
         /\ heap[b].siblings = <<a>>
         /\ heap[heap[a].services].entries[2] = b


\* C29 as stated: the Result is written by the same path for every status.
\* Whatever its status, a Result is written by the branch of handleResult that
\* writes a 200 Result.
C29_SamePathForEveryStatus ==
  \A k \in Calls("handleResult") :
    ~Threw(k) => trace[k].value = PathOf([status |-> 200, body |-> Undefined])

\* C29, amended: for every status the response holds the status and the body
\* of the Result unchanged; a Result with a status from 200 to 299 is written
\* by this.respond, whose default body makes the two assignments, every other
\* Result by the same two assignments made in handleResult itself.
C29_ResultWrittenVerbatim ==
  \A k \in Calls("handleResult") :
    ~Threw(k) =>
      /\ ctx.status = result.status
      /\ ctx.body = result.body
      /\ trace[k].value =
           IF result.status \in 200..299 THEN Str("respond") ELSE Str("assign")

\* A 404 Result was written by the assignments of handleResult, body included.
C29_Witness ==
  /\ \E k \in Calls("handleResult") : trace[k].value = Str("assign")
  /\ result.status = 404
  /\ ctx.status = 404
  /\ ctx.body = ErrorBody("NotFound")


\* The run of the current request has ended as C30 says: in state done, with
\* the response written and stop() called on every service of the request.
RunCompleted ==
  /\ pc = "done"
  /\ \E k \in Calls("handleResult") : ~Threw(k)
  /\ \A s \in services : CallsOn("stop", s) # {}

\* C30: when every call run makes eventually returns or throws, every request
\* for which Action.run was started eventually has its response written and
\* stop() called on all its services, and the run ends in state done.
C30_RunCompletes == RunEntered ~> RunCompleted

\* Under the same assumption every started run comes to an end, resolved or
\* rejected.
RunTerminates == RunEntered ~> Finished


\* C31: for every stage the Action subtype of the request declares a schema
\* for, a request that reaches handle has passed the validator of that stage,
\* whatever happened to earlier instantiations of the subtype.
C31_DeclaredStagesValidated ==
  \A h \in Calls("handle") :
    \A s \in Stages :
      schemasOf(ctor)[s] # NoSchema =>
        \E n \in Calls(ValidatorOf(s)) : n < h /\ trace[n].outcome = "returned"


\* The Result of validating the values of request r: Undefined when they are
\* valid, otherwise the 400 Result of the stage that rejects them.
OwnResult(r) ==
  LET q == requests[r] IN
  validate(validatorsOf(validators, q.ctor),
           q.values["body"], q.values["params"], q.values["query"]).result

\* C32: under any interleaving of requests that share a cached validator, a
\* request gets a 400 response exactly when its own values are invalid, and the
\* error list of the response is the array the validator made for that request,
\* holding the errors of that request's values.
C32_OwnValidationErrors ==
  \A r \in Requests :
    requests[r].response # Undefined =>
      /\ requests[r].response.status = 400 <=> OwnResult(r) # Undefined
      /\ requests[r].response.status = 400 =>
           requests[r].response.errors = ErrorsArray(r, OwnResult(r).body.errors)

\* A request was rejected by a cached validator; before its response was
\* written the same validator ran for another request and left other errors
\* (or none) behind; the response holds the errors of the request itself.
C32_Witness ==
  \E r \in Requests :
    /\ requests[r].response # Undefined
    /\ requests[r].response.status = 400
    /\ requests[r].response.shared # requests[r].response.errors
    /\ requests[r].response.errors = ErrorsArray(r, OwnResult(r).body.errors)


\* The application has an open listening socket.
SocketOpen == process = "running" /\ Listening # {}

\* The factory under key f of the current serviceFactories map is started:
\* its start() has returned after the map was assigned, and no stop() has been
\* invoked on it since.
FactoryStarted(f) ==
  \E n \in HookCalls("factory.start", f) :
    /\ events[n].outcome = "returned"
    /\ \A m \in HookCalls("factory.stop", f) : m < n
    /\ \A m \in EventsOn("createServiceFactories") : m < n

\* C33: in every reachable state, if the listening socket of the application
\* is open then start() has completed on every service factory of the
\* application and stop() has been invoked on none of them since.
C33_OpenSocketImpliesFactoriesStarted ==
  SocketOpen => \A f \in 1..NumServices : FactoryStarted(f)


\* C34: the Application owns at most one open listening socket at any time,
\* and when a stop() call has just returned, no socket a start() opened is
\* still open.
C34_AtMostOneSocket ==
  process = "running" =>
    /\ Cardinality(Listening) <= 1
    /\ (/\ events # << >>
        /\ events[Len(events)].op = "stop"
        /\ events[Len(events)].outcome = "returned") => Listening = {}


\* C35: when createService of some factory rejects during
\* createServiceInstances, the handler rejects with that error, nothing is
\* called afterwards (no createService of a later factory, no constructor, no
\* run), and stop() is invoked on every service instance that was created
\* before.
C35_FailedCreationLeaksNothing ==
  \A n \in Calls("createService") :
    Threw(n) =>
      /\ pc = "rejected"
      /\ rejection = trace[n].value
      /\ \A m \in DOMAIN trace :
           n < m => trace[m].op \notin {"createService", "construct"} \cup TryOps
      /\ \A s \in services : CallsOn("stop", s) # {}

====
